---- MODULE Spec2Model ----
(***************************************************************************)
(* A model of the task-orchestration engine: the premium-CLI health state  *)
(* machine (app/claude_health.py) and the task lifecycle driven by the     *)
(* scheduler, poller, resume and routines ticks and by the task endpoints  *)
(* (app/main.py, app/routines.py).                                         *)
(*                                                                         *)
(* Time is counted in units of 30 minutes.                                 *)
(***************************************************************************)
EXTENDS Integers, Sequences, FiniteSets, TLC

VARIABLES
    now,        \* the UTC clock, in 30-minute units
    health,     \* the singleton claude_health row
    hobs,       \* observer of the health API: what the last call was and returned
    tasks,      \* the tasks table: task id -> row
    decisions,  \* the decisions table: task id -> status of its latest decision
    threads,    \* task id -> number of pipeline runner threads in flight
    gw,         \* task id -> true state of the gateway job behind the task's handle
    sched,      \* where the ScheduleTick handler stands, and the rows it selected
    tobs,       \* observer of the task operations
    cli,        \* the premium-CLI adapter: its clock, its list of rate-limit
                \* timestamps, and what its last invocation was classified as
    appr,       \* the approval links: the decisions table row by row, the board
                \* handlers waiting between create and apply, the last response
    stamp,      \* the wall clock in minutes and each task row's updated_at
    rev,        \* the columns of the tasks table that review_autocreate reads
    plan,       \* the schedule columns of the tasks, the minute clock and the ScheduleTick loop
    run,        \* the scheduler's jobs and what the last tick did: the routines it ran, the error it logged
    esc,        \* observer of the escalate block: the task, the block's on_limit, the CLI's failure type
    blk,        \* the columns of the tasks table that blocked_resolution reads, and its clock
    phase,      \* the rows planning_next_phase counts, and what its last tick did
    rpt,        \* status_report_email: the done rows, the routine_state it stores, the emails sent
    disp,       \* dispatch_job and the rows it is called for: the gateway settings, the committed rows, the last dispatch
    jobs,        \* the local gateway: each job's row, the position of its runner thread, its model call
    rec,        \* the runners recording outcomes: where each stands in its record call, the row it read, the calls counted
    recur,      \* a task with its schedule columns as PollTick reschedules it, and the minute clock
    dur         \* the rolling-duration history of the premium CLI, and where each runner stands in an invocation

hvars == <<now, health, hobs>>
tvars == <<tasks, decisions, threads, gw, sched, tobs>>
\* the state of the components that have a specification of their own
xvars == <<cli, appr, stamp, rev, plan, run, esc, blk, phase, rpt, disp, jobs,
          rec, recur, dur>>
xNotCli == <<appr, stamp, rev, plan, run, esc, blk, phase, rpt, disp, jobs, rec,
          recur, dur>>
xNotAppr == <<cli, stamp, rev, plan, run, esc, blk, phase, rpt, disp, jobs, rec,
          recur, dur>>
xNotStamp == <<cli, appr, rev, plan, run, esc, blk, phase, rpt, disp, jobs, rec,
          recur, dur>>
xNotRev == <<cli, appr, stamp, plan, run, esc, blk, phase, rpt, disp, jobs, rec,
          recur, dur>>
xNotPlan == <<cli, appr, stamp, rev, run, esc, blk, phase, rpt, disp, jobs, rec,
          recur, dur>>
xNotRun == <<cli, appr, stamp, rev, plan, esc, blk, phase, rpt, disp, jobs, rec,
          recur, dur>>
xNotEsc == <<cli, appr, stamp, rev, plan, run, blk, phase, rpt, disp, jobs, rec,
          recur, dur>>
xNotBlk == <<cli, appr, stamp, rev, plan, run, esc, phase, rpt, disp, jobs, rec,
          recur, dur>>
xNotPhase == <<cli, appr, stamp, rev, plan, run, esc, blk, rpt, disp, jobs, rec,
          recur, dur>>
xNotRpt == <<cli, appr, stamp, rev, plan, run, esc, blk, phase, disp, jobs, rec,
          recur, dur>>
xNotDisp == <<cli, appr, stamp, rev, plan, run, esc, blk, phase, rpt, jobs, rec,
          recur, dur>>
xNotJob == <<cli, appr, stamp, rev, plan, run, esc, blk, phase, rpt, disp, rec,
          recur, dur>>
xNotRec == <<cli, appr, stamp, rev, plan, run, esc, blk, phase, rpt, disp, jobs,
          recur, dur>>
xNotRecur == <<cli, appr, stamp, rev, plan, run, esc, blk, phase, rpt, disp, jobs, rec,
          dur>>
xNotDur == <<cli, appr, stamp, rev, plan, run, esc, blk, phase, rpt, disp, jobs, rec, recur>>
vars == <<now, health, hobs, tasks, decisions, threads, gw, sched, tobs, cli, appr,
          stamp, rev, plan, run, esc, blk, phase, rpt, disp, jobs, rec,
          recur, dur>>

(***************************************************************************)
(* Health state machine: app/claude_health.py                              *)
(***************************************************************************)
HEALTHY == "HEALTHY"
DEGRADED == "DEGRADED"
AUTH_FAILED == "AUTH_FAILED"
DAILY_LIMIT_HIT == "DAILY_LIMIT_HIT"
UNAVAILABLE == "UNAVAILABLE"
HealthStates == {HEALTHY, DEGRADED, AUTH_FAILED, DAILY_LIMIT_HIT, UNAVAILABLE}

CLAUDE_FAIL_AUTH == "CLAUDE_FAIL_AUTH"
CLAUDE_FAIL_RATE_LIMIT == "CLAUDE_FAIL_RATE_LIMIT"
CLAUDE_FAIL_DAILY_LIMIT == "CLAUDE_FAIL_DAILY_LIMIT"
CLAUDE_FAIL_TIMEOUT == "CLAUDE_FAIL_TIMEOUT"
CLAUDE_FAIL_ERROR == "CLAUDE_FAIL_ERROR"
FailureTypes == {CLAUDE_FAIL_AUTH, CLAUDE_FAIL_RATE_LIMIT, CLAUDE_FAIL_DAILY_LIMIT,
                 CLAUDE_FAIL_TIMEOUT, CLAUDE_FAIL_ERROR}

\* errors/timeouts before UNAVAILABLE
CONSECUTIVE_THRESHOLD == 5
\* one UTC day, timedelta(days=1), in 30-minute units
DayLen == 48
\* CLAUDE_UNAVAILABLE_COOLDOWN_MINUTES, default 30, in 30-minute units
CooldownUnits == 1
\* a NULL column
NULL == -1

\* The clock runs from Horizon units before a UTC midnight to Horizon after it.
Horizon == 2
\* At most this many invocations are recorded between two daily resets.
MaxInvocations == 6

StartTime == DayLen - Horizon
EndTime == DayLen + Horizon

\* _next_midnight: (now + 1 day) truncated to 00:00:00
NextMidnight(t) == ((t \div DayLen) + 1) * DayLen

\* _update(**fields): the fields, and updated_at
Update(row, t) == [row EXCEPT !.updated_at = t]

\* ensure_table: the seeded singleton row
SeedRow(t) ==
    [state |-> HEALTHY, last_failure |-> NULL, consecutive_failures |-> 0,
     daily_invocations |-> 0, daily_reset_at |-> NextMidnight(t), updated_at |-> t]

\* A fault of _maybe_reset_daily: it resets only after daily_reset_at has passed.
MaybeResetDailyLate(row, t) ==
    IF row.daily_reset_at = NULL
    THEN [reset |-> FALSE, row |-> row]
    ELSE IF t > row.daily_reset_at
         THEN [reset |-> TRUE,
               row |-> Update([row EXCEPT !.state = HEALTHY,
                                          !.daily_invocations = 0,
                                          !.daily_reset_at = NextMidnight(t),
                                          !.consecutive_failures = 0], t)]
         ELSE [reset |-> FALSE, row |-> row]

\* _maybe_reset_daily(row): whether it reset, and the row afterwards
MaybeResetDaily(row, t) ==
    IF row.daily_reset_at = NULL
    THEN [reset |-> FALSE, row |-> row]
    ELSE IF t >= row.daily_reset_at
         THEN [reset |-> TRUE,
               row |-> Update([row EXCEPT !.state = HEALTHY,
                                          !.daily_invocations = 0,
                                          !.daily_reset_at = NextMidnight(t),
                                          !.consecutive_failures = 0], t)]
         ELSE [reset |-> FALSE, row |-> row]

\* A fault of get_state: after an auto-reset it returns the state it read.
GetStateResultStale(row, t) ==
    LET d == IF row.state = DAILY_LIMIT_HIT THEN MaybeResetDaily(row, t)
             ELSE [reset |-> FALSE, row |-> row]
    IN  IF d.reset THEN [ret |-> row.state, row |-> d.row]
        ELSE IF /\ row.state = UNAVAILABLE
                /\ row.last_failure # NULL
                /\ t - row.last_failure >= CooldownUnits
             THEN [ret |-> row.state,
                   row |-> Update([row EXCEPT !.state = HEALTHY,
                                              !.consecutive_failures = 0], t)]
             ELSE [ret |-> row.state, row |-> row]

\* get_state(): the state returned and the row afterwards
GetStateResult(row, t) ==
    LET d == IF row.state = DAILY_LIMIT_HIT THEN MaybeResetDaily(row, t)
             ELSE [reset |-> FALSE, row |-> row]
    IN  IF d.reset THEN [ret |-> HEALTHY, row |-> d.row]
        ELSE IF /\ row.state = UNAVAILABLE
                /\ row.last_failure # NULL
                /\ t - row.last_failure >= CooldownUnits
             THEN [ret |-> HEALTHY,
                   row |-> Update([row EXCEPT !.state = HEALTHY,
                                              !.consecutive_failures = 0], t)]
             ELSE [ret |-> row.state, row |-> row]

\* record_success(): the row afterwards
RecordSuccessRow(row, t) ==
    Update([row EXCEPT !.state = HEALTHY,
                       !.consecutive_failures = 0,
                       !.daily_invocations = row.daily_invocations + 1], t)

\* A fault of record_failure: UNAVAILABLE only once the threshold is exceeded.
FailureStateLate(current, failure_type, consecutive) ==
    IF failure_type = CLAUDE_FAIL_AUTH THEN AUTH_FAILED
    ELSE IF failure_type = CLAUDE_FAIL_DAILY_LIMIT THEN DAILY_LIMIT_HIT
    ELSE IF failure_type = CLAUDE_FAIL_RATE_LIMIT
         THEN IF current = HEALTHY THEN DEGRADED
              ELSE IF current = DEGRADED THEN DEGRADED
              ELSE current
    ELSE IF failure_type \in {CLAUDE_FAIL_TIMEOUT, CLAUDE_FAIL_ERROR}
         THEN IF consecutive > CONSECUTIVE_THRESHOLD THEN UNAVAILABLE ELSE current
    ELSE current

\* record_failure: the new state for a failure type
FailureState(current, failure_type, consecutive) ==
    IF failure_type = CLAUDE_FAIL_AUTH THEN AUTH_FAILED
    ELSE IF failure_type = CLAUDE_FAIL_DAILY_LIMIT THEN DAILY_LIMIT_HIT
    ELSE IF failure_type = CLAUDE_FAIL_RATE_LIMIT
         THEN IF current = HEALTHY THEN DEGRADED
              ELSE IF current = DEGRADED THEN DEGRADED
              ELSE current
    ELSE IF failure_type \in {CLAUDE_FAIL_TIMEOUT, CLAUDE_FAIL_ERROR}
         THEN IF consecutive >= CONSECUTIVE_THRESHOLD THEN UNAVAILABLE ELSE current
    ELSE current

\* record_failure(failure_type): the row afterwards
RecordFailureRow(row, failure_type, t) ==
    LET consecutive == row.consecutive_failures + 1
        invocations == row.daily_invocations + 1
    IN  Update([row EXCEPT !.state = FailureState(row.state, failure_type, consecutive),
                           !.last_failure = t,
                           !.consecutive_failures = consecutive,
                           !.daily_invocations = invocations], t)

\* manual_reset(): the row afterwards
ManualResetRow(row, t) ==
    Update([row EXCEPT !.state = HEALTHY, !.consecutive_failures = 0], t)

(***************************************************************************)
(* The observer hobs: op is the last health call, arg its failure type,    *)
(* pre the state the call found in the row, ret what get_state returned,   *)
(* reads how many get_state calls ran in a row with the clock fixed        *)
(* (counted to 2), teRun how many of the latest recorded outcomes in a row *)
(* were TIMEOUT or ERROR.                                                  *)
(***************************************************************************)
NoObs ==
    [op |-> "none", arg |-> "none", pre |-> "none", ret |-> "none",
     reads |-> 0, teRun |-> 0]

\* the clock advances by one unit
Tick ==
    /\ now < EndTime
    /\ now' = now + 1
    /\ hobs' = [hobs EXCEPT !.op = "tick", !.arg = "none", !.pre = "none",
                            !.ret = "none", !.reads = 0]
    /\ UNCHANGED health

GetState ==
    LET r == GetStateResult(health, now)
    IN  /\ health' = r.row
        /\ hobs' = [hobs EXCEPT !.op = "get_state", !.arg = "none",
                                !.pre = health.state, !.ret = r.ret,
                                !.reads = IF hobs.reads < 2 THEN hobs.reads + 1 ELSE 2]
        /\ UNCHANGED now

RecordSuccess ==
    /\ health.daily_invocations < MaxInvocations
    /\ health' = RecordSuccessRow(health, now)
    /\ hobs' = [op |-> "record_success", arg |-> "none", pre |-> health.state,
                ret |-> "none",
                reads |-> 0, teRun |-> 0]
    /\ UNCHANGED now

RecordFailure(failure_type) ==
    /\ health.daily_invocations < MaxInvocations
    /\ health' = RecordFailureRow(health, failure_type, now)
    /\ hobs' = [op |-> "record_failure", arg |-> failure_type, pre |-> health.state,
                ret |-> "none",
                reads |-> 0,
                teRun |-> IF failure_type \in {CLAUDE_FAIL_TIMEOUT, CLAUDE_FAIL_ERROR}
                          THEN hobs.teRun + 1 ELSE 0]
    /\ UNCHANGED now

ManualReset ==
    /\ health' = ManualResetRow(health, now)
    /\ hobs' = [op |-> "manual_reset", arg |-> "none", pre |-> health.state,
                ret |-> "none",
                reads |-> 0, teRun |-> 0]
    /\ UNCHANGED now

HealthInit ==
    /\ now = StartTime
    /\ health = SeedRow(StartTime)
    /\ hobs = NoObs

(***************************************************************************)
(* The premium-CLI adapter: app/claude_executor.py.  Its clock (time.time) *)
(* is counted in minutes, the unit of CLAUDE_RATE_LIMIT_WINDOW_MINUTES.    *)
(***************************************************************************)
CLAUDE_SUCCESS == "CLAUDE_SUCCESS"

\* CLAUDE_CONSECUTIVE_RATE_LIMITS_FOR_DAILY, default 3
CONSECUTIVE_RATE_LIMITS_FOR_DAILY == 3
\* CLAUDE_RATE_LIMIT_WINDOW_MINUTES, default 10
RATE_LIMIT_WINDOW_MINUTES == 10

\* The adapter's clock runs from 0 to CliHorizon.
CliHorizon == 11
\* At most this many rate-limits are classified between two successes.
MaxHits == 4

\* while list and list[0] < cutoff: list.pop(0)
RECURSIVE TrimFront(_, _)
TrimFront(list, cutoff) ==
    IF list # <<>> /\ Head(list) < cutoff THEN TrimFront(Tail(list), cutoff)
    ELSE list

\* A fault of _check_daily_from_consecutive: an entry exactly one window old
\* is discarded too.
CheckDailyFromConsecutiveEager(list, ts) ==
    LET kept == SelectSeq(Append(list, ts),
                          LAMBDA e : e > ts - RATE_LIMIT_WINDOW_MINUTES)
    IN  [promote |-> Len(kept) >= CONSECUTIVE_RATE_LIMITS_FOR_DAILY, list |-> kept]

\* _check_daily_from_consecutive(ts): the answer, and the list afterwards
CheckDailyFromConsecutive(list, ts) ==
    LET kept == TrimFront(Append(list, ts), ts - RATE_LIMIT_WINDOW_MINUTES)
    IN  [promote |-> Len(kept) >= CONSECUTIVE_RATE_LIMITS_FOR_DAILY, list |-> kept]

\* a rate-limit signal: promoted to a daily limit or not
RateLimitResult(list, ts) ==
    LET c == CheckDailyFromConsecutive(list, ts)
    IN  [failure_type |-> IF c.promote THEN CLAUDE_FAIL_DAILY_LIMIT
                          ELSE CLAUDE_FAIL_RATE_LIMIT,
         list |-> c.list, rate_limit |-> TRUE, success |-> FALSE]

\* _result(False, ...) of a classification that leaves the list alone
PlainResult(list, failure_type) ==
    [failure_type |-> failure_type, list |-> list, rate_limit |-> FALSE,
     success |-> FALSE]

\* the classification with the AUTH and DAILY patterns looked at in the other
\* order for a non-zero exit
ClassifyDailyFirst(list, ts, timeout, rc_zero, empty, slow, signals) ==
    IF timeout THEN PlainResult(list, CLAUDE_FAIL_TIMEOUT)
    ELSE IF ~rc_zero
         THEN IF "daily" \in signals THEN PlainResult(list, CLAUDE_FAIL_DAILY_LIMIT)
              ELSE IF "auth" \in signals THEN PlainResult(list, CLAUDE_FAIL_AUTH)
              ELSE IF "rate" \in signals THEN RateLimitResult(list, ts)
              ELSE PlainResult(list, CLAUDE_FAIL_ERROR)
    ELSE IF empty
         THEN IF slow THEN RateLimitResult(list, ts)
              ELSE PlainResult(list, CLAUDE_FAIL_ERROR)
    ELSE IF "daily" \in signals THEN PlainResult(list, CLAUDE_FAIL_DAILY_LIMIT)
    ELSE IF "rate" \in signals THEN RateLimitResult(list, ts)
    ELSE [failure_type |-> CLAUDE_SUCCESS, list |-> <<>>, rate_limit |-> FALSE,
          success |-> TRUE]

\* execute_claude_cli: the classification of one invocation.  timeout tells
\* whether the subprocess timed out, rc_zero whether it exited with 0, empty
\* whether stdout was blank, slow whether elapsed > 3 * rolling average > 0,
\* signals which of the pattern groups match the combined output.
Classify(list, ts, timeout, rc_zero, empty, slow, signals) ==
    IF timeout THEN PlainResult(list, CLAUDE_FAIL_TIMEOUT)
    ELSE IF ~rc_zero
         THEN IF "auth" \in signals THEN PlainResult(list, CLAUDE_FAIL_AUTH)
              ELSE IF "daily" \in signals THEN PlainResult(list, CLAUDE_FAIL_DAILY_LIMIT)
              ELSE IF "rate" \in signals THEN RateLimitResult(list, ts)
              ELSE PlainResult(list, CLAUDE_FAIL_ERROR)
    ELSE IF empty
         THEN IF slow THEN RateLimitResult(list, ts)
              ELSE PlainResult(list, CLAUDE_FAIL_ERROR)
    ELSE IF "daily" \in signals THEN PlainResult(list, CLAUDE_FAIL_DAILY_LIMIT)
    ELSE IF "rate" \in signals THEN RateLimitResult(list, ts)
    ELSE [failure_type |-> CLAUDE_SUCCESS, list |-> <<>>, rate_limit |-> FALSE,
          success |-> TRUE]

\* cli.hist is the observer's own record: the timestamps of all rate-limits
\* classified since the last genuine success, none discarded.
CliStart ==
    [clock |-> 0, rl |-> <<>>, hist |-> <<>>, op |-> "none",
     failure_type |-> "none", rate_limit |-> FALSE, success |-> FALSE]

CliTick ==
    /\ cli.clock < CliHorizon
    /\ cli' = [cli EXCEPT !.clock = cli.clock + 1, !.op = "tick",
                          !.failure_type = "none", !.rate_limit = FALSE,
                          !.success = FALSE]

ExecuteClaudeCli(timeout, rc_zero, empty, slow, signals) ==
    LET r == Classify(cli.rl, cli.clock, timeout, rc_zero, empty, slow, signals)
    IN  /\ r.rate_limit => Len(cli.hist) < MaxHits
        /\ cli' = [cli EXCEPT
                     !.rl = r.list,
                     !.hist = IF r.rate_limit THEN Append(cli.hist, cli.clock)
                              ELSE IF r.failure_type = CLAUDE_SUCCESS THEN <<>>
                              ELSE cli.hist,
                     !.op = "execute",
                     !.failure_type = r.failure_type,
                     !.rate_limit = r.rate_limit,
                     !.success = r.success]

\* the invocations that differ: a subprocess that timed out has no exit code
\* and no output, and elapsed time is looked at only for a blank stdout
CliInputs ==
    {i \in [timeout : BOOLEAN, rc_zero : BOOLEAN, empty : BOOLEAN, slow : BOOLEAN,
            signals : SUBSET {"auth", "daily", "rate"}] :
        /\ i.timeout => (~i.rc_zero /\ i.empty /\ ~i.slow /\ i.signals = {})
        /\ i.slow => (i.rc_zero /\ i.empty)}

CliNext ==
    \/ (CliTick /\ UNCHANGED <<hvars, tvars, xNotCli>>)
    \/ \E i \in CliInputs :
          (ExecuteClaudeCli(i.timeout, i.rc_zero, i.empty, i.slow, i.signals)
             /\ UNCHANGED <<hvars, tvars, xNotCli>>)

(***************************************************************************)
(* Tasks: app/db.py (schema), app/main.py, app/routines.py                 *)
(*                                                                         *)
(* The tasks modelled are ordinary ones: unscheduled (schedule_type        *)
(* 'none'), not recurring, and no Review:/Resolve:/Plan: helper.  A text   *)
(* column holds "NULL" for SQL NULL.  updated_at is not stored: the one    *)
(* reader of it, Step 0 of idle_autostart, is told whether ten minutes     *)
(* have passed since the rows were last written.                           *)
(***************************************************************************)
TaskIds == {1, 2}
\* the active agents (agents.is_active = 1)
AgentIds == {1}

\* MAX_RETRIES of idle_autostart
MAX_RETRIES == 3
\* At most this many pipeline threads of one task are in flight at once.
MaxInFlight == 2
\* At most this many calls of the editing endpoints in a run.
MaxEdits == 1
\* At most this many tasks are created in a run.
MaxTasks == 1
\* At most this many failures of the gateway and of pipeline runs in a run.
MaxFaults == 1

\* the statuses the board accepts
AllowedStatuses ==
    {"pending", "approved", "rejected", "active", "running", "completed", "blocked",
     "dev_done", "review", "done", "paused_limit", "queued_for_claude"}
PausedStatuses == {"paused_limit", "queued_for_claude"}

\* an id with no row in the tasks table
NoTask ==
    [status |-> "absent", is_critical |-> 0, requires_approval |-> 0,
     assigned_agent_id |-> NULL, openclaw_job_id |-> NULL,
     openclaw_job_status |-> "NULL", retry_count |-> 0, last_error |-> "NULL",
     resume_block_index |-> NULL, resume_pipeline_id |-> NULL]

\* create_task: INSERT INTO tasks ... 'pending', requires_approval = 1
NewTask(critical, aid) ==
    [status |-> "pending", is_critical |-> critical, requires_approval |-> 1,
     assigned_agent_id |-> aid, openclaw_job_id |-> NULL,
     openclaw_job_status |-> "NULL", retry_count |-> 0, last_error |-> "NULL",
     resume_block_index |-> NULL, resume_pipeline_id |-> NULL]

Present(ts) == {t \in TaskIds : ts[t].status # "absent"}

\* a write of the row: UPDATE tasks SET ..., updated_at = now; updated_at is
\* not stored, so the row written is the row given
Touch(r) == r

\* ScheduleTick's position: the rows it selected and has not yet worked on,
\* with the assigned_agent_id each row had when selected
SchedIdle == [pc |-> "idle", due |-> {}, agent |-> [t \in TaskIds |-> NULL]]
\* What has been done to the tasks: decided holds the tasks an approve=true
\* decision was applied to; declassified those that were ever stored with
\* is_critical = 0; edits counts the calls of the two editing endpoints, faults
\* the failures of the gateway and of the pipeline runs.
NoTaskObs == [decided |-> {}, declassified |-> {}, edits |-> 0, faults |-> 0]

\* the smallest id of a non-empty set of ids (rows come in rowid order)
MinId(S) == CHOOSE t \in S : \A u \in S : t <= u

(***************************************************************************)
(* idle_autostart: app/routines.py, tick_routines                          *)
(***************************************************************************)
\* Step 0: reset stale running jobs (stuck > 10 min)
StaleReset(r, aged) ==
    IF r.status \in {"active", "running"} /\ r.openclaw_job_status = "running" /\ aged
    THEN Touch([r EXCEPT !.status = "approved", !.openclaw_job_id = NULL,
                         !.openclaw_job_status = "NULL",
                         !.last_error = "stale_running_reset"])
    ELSE r

\* Step 1: move completed active tasks to dev_done
AdvanceCompleted(r) ==
    IF r.status = "active" /\ r.openclaw_job_status = "completed"
    THEN Touch([r EXCEPT !.status = "dev_done"])
    ELSE r

\* Step 2: re-dispatch failed/blocked tasks (max 3 retries)
RetryFailed(r) ==
    IF /\ \/ (r.status = "active" /\ r.openclaw_job_status = "failed")
          \/ r.status = "blocked"
       /\ r.retry_count < MAX_RETRIES
    THEN Touch([r EXCEPT !.status = "approved", !.openclaw_job_id = NULL,
                         !.openclaw_job_status = "NULL", !.last_error = "NULL",
                         !.retry_count = r.retry_count + 1])
    ELSE r

\* Step 2, second part: tasks that exceeded the retries are permanently blocked
\* (last_error != 'max_retries_exceeded' is not true of a NULL last_error)
MarkExhausted(r) ==
    IF /\ \/ (r.status = "active" /\ r.openclaw_job_status = "failed")
          \/ /\ r.status = "blocked"
             /\ r.last_error # "NULL"
             /\ r.last_error # "max_retries_exceeded"
       /\ r.retry_count >= MAX_RETRIES
    THEN Touch([r EXCEPT !.status = "blocked", !.last_error = "max_retries_exceeded"])
    ELSE r

\* Step 2b: clean stale openclaw fields on pending/approved tasks
CleanStaleFields(r) ==
    IF r.status \in {"pending", "approved"} /\ r.openclaw_job_status # "NULL"
    THEN Touch([r EXCEPT !.openclaw_job_id = NULL, !.openclaw_job_status = "NULL",
                         !.last_error = "NULL"])
    ELSE r

\* A fault of Step 3: is_critical is not looked at.
AutoApproveAll(r) ==
    IF r.status = "pending"
    THEN Touch([r EXCEPT !.status = "approved"])
    ELSE r

\* Step 3: auto-approve non-critical pending tasks
AutoApprove(r) ==
    IF r.status = "pending" /\ r.is_critical = 0
    THEN Touch([r EXCEPT !.status = "approved"])
    ELSE r

\* A fault of agent_is_running: the external job state is not looked at.
AgentIsRunningByStatus(ts, aid) ==
    \E t \in TaskIds :
        /\ ts[t].assigned_agent_id = aid
        /\ ts[t].status \in {"active", "running"}

\* agent_is_running(con, agent_id)
AgentIsRunning(ts, aid) ==
    \E t \in TaskIds :
        /\ ts[t].assigned_agent_id = aid
        /\ \/ ts[t].openclaw_job_status \in {"queued", "running"}
           \/ ts[t].status \in {"active", "running"}

\* Step 4: claim unassigned approved tasks for the first idle agent
ClaimUnassigned(ts, claim) ==
    IF claim /\ \E a \in AgentIds : ~AgentIsRunning(ts, a)
    THEN LET aid == MinId({a \in AgentIds : ~AgentIsRunning(ts, a)})
         IN  [t \in TaskIds |->
                IF ts[t].status = "approved" /\ ts[t].assigned_agent_id = NULL
                THEN Touch([ts[t] EXCEPT !.assigned_agent_id = aid])
                ELSE ts[t]]
    ELSE ts

\* Steps 0 to 4 of one idle_autostart routine, in the order of the code
SweepBeforeDispatch(ts, claim, aged) ==
    LET s0 == [t \in TaskIds |-> StaleReset(ts[t], aged)]
        s1 == [t \in TaskIds |-> AdvanceCompleted(s0[t])]
        s2 == [t \in TaskIds |-> RetryFailed(s1[t])]
        s3 == [t \in TaskIds |-> MarkExhausted(s2[t])]
        s4 == [t \in TaskIds |-> CleanStaleFields(s3[t])]
        s5 == [t \in TaskIds |-> AutoApprove(s4[t])]
    IN  ClaimUnassigned(s5, claim)

\* Step 5: the approved rows without a job handle that an idle agent may be given
DispatchCandidates(ts, aid) ==
    {t \in TaskIds : /\ ts[t].status = "approved"
                     /\ ts[t].openclaw_job_id = NULL
                     /\ ts[t].assigned_agent_id = aid}

\* dispatch_one_task_row, once the row is approved and has an agent: the row
\* after dispatch_job answered ok or with an error.  With one agent and one
\* routine the error's UPDATE of last_error is never committed: the tick
\* commits only after a successful dispatch and then closes the connection.
DispatchRow(r, ok) ==
    IF ok
    THEN Touch([r EXCEPT !.status = "active", !.openclaw_job_id = 1,
                         !.openclaw_job_status = "queued", !.last_error = "NULL"])
    ELSE r

\* The gateway job behind each handle after the rows changed from old to new:
\* a new handle is a queued job, a cleared handle is followed no further.
GwSync(old, new) ==
    [t \in TaskIds |->
        IF new[t].openclaw_job_id = NULL THEN "none"
        ELSE IF old[t].openclaw_job_id = NULL THEN "queued"
        ELSE gw[t]]

\* the observers after an operation that does not call the health monitor
Fault(failed) ==
    /\ failed => tobs.faults < MaxFaults
    /\ tobs' = [tobs EXCEPT !.faults = IF failed THEN tobs.faults + 1 ELSE tobs.faults]
Quiet ==
    /\ hobs' = [hobs EXCEPT !.op = "none", !.arg = "none", !.pre = "none",
                            !.ret = "none", !.reads = 0]
    /\ UNCHANGED <<now, health, xvars>>

\* One routines tick with one idle_autostart routine enabled (no agent scope);
\* claim is the routine's claim_unassigned, ok tells how dispatch_job answers, aged
\* whether the rows were last written more than ten minutes ago.
RoutinesTickRows(claim, ok, aged) ==
    LET swept == SweepBeforeDispatch(tasks, claim, aged)
        idle == {a \in AgentIds : ~AgentIsRunning(swept, a)}
    IN  /\ \/ /\ \E a \in idle : DispatchCandidates(swept, a) # {}
              /\ \E a \in idle : \E t \in DispatchCandidates(swept, a) :
                     tasks' = [swept EXCEPT ![t] = DispatchRow(swept[t], ok)]
              /\ Fault(~ok)
           \/ /\ \A a \in idle : DispatchCandidates(swept, a) = {}
              /\ ok
              /\ tasks' = swept
              /\ tobs' = tobs
        /\ gw' = GwSync(tasks, tasks')
        /\ UNCHANGED <<decisions, threads, sched>>

RoutinesTick(claim, ok, aged) ==
    /\ RoutinesTickRows(claim, ok, aged)
    /\ Quiet

(***************************************************************************)
(* ScheduleTick: app/main.py, _tick_scheduled_tasks.  The handler selects  *)
(* the due rows once and then works through them; the other ticks run on   *)
(* other scheduler threads and may run between its statements.             *)
(***************************************************************************)
\* the rows of: SELECT * FROM tasks WHERE status='approved' AND no job handle
DueRows(ts) ==
    {t \in TaskIds : ts[t].status = "approved" /\ ts[t].openclaw_job_id = NULL}

SchedSelect ==
    /\ sched.pc = "idle"
    /\ DueRows(tasks) # {}
    /\ sched' = [pc |-> "dispatch", due |-> DueRows(tasks),
                 agent |-> [t \in TaskIds |->
                              IF t \in DueRows(tasks)
                              THEN tasks[t].assigned_agent_id ELSE NULL]]
    /\ tobs' = tobs
    /\ Quiet
    /\ UNCHANGED <<tasks, decisions, threads, gw>>

\* one turn of the loop over the selected rows
SchedDispatch ==
    /\ sched.pc = "dispatch"
    /\ LET t == MinId(sched.due)
           rest == sched.due \ {t}
       IN  /\ sched' = IF rest = {} THEN SchedIdle
                       ELSE [sched EXCEPT !.due = rest, !.agent[t] = NULL]
           /\ IF sched.agent[t] = NULL
              THEN /\ tasks' = [tasks EXCEPT
                                  ![t] = Touch([tasks[t] EXCEPT
                                                !.last_error = "no_assigned_agent"])]
                   /\ threads' = threads
              ELSE /\ threads[t] < MaxInFlight
                   /\ threads' = [threads EXCEPT ![t] = threads[t] + 1]
                   /\ tasks' = [tasks EXCEPT
                                  ![t] = Touch([tasks[t] EXCEPT !.status = "active"])]
    /\ tobs' = tobs
    /\ Quiet
    /\ UNCHANGED <<decisions, gw>>

(***************************************************************************)
(* PollTick: app/main.py, _poll_openclaw_jobs                              *)
(***************************************************************************)
\* the row of an ordinary task after its job was polled: ok is get_status's
\* answer, state the normalized job state
PollRow(r, ok, state) ==
    IF ~ok THEN Touch([r EXCEPT !.last_error = "status_error"])
    ELSE LET new_status == CASE state = "queued" -> "active"
                             [] state = "running" -> "running"
                             [] state = "completed" -> "completed"
                             [] state = "failed" -> "blocked"
                             [] OTHER -> r.status
             r1 == Touch([r EXCEPT !.status = new_status,
                                   !.openclaw_job_status = state])
         IN  IF new_status \in {"completed", "blocked"}
             THEN IF state = "failed"
                  THEN [r1 EXCEPT !.openclaw_job_id = NULL, !.status = "blocked",
                                  !.last_error = "openclaw_job_failed"]
                  ELSE [r1 EXCEPT !.openclaw_job_id = NULL, !.status = "dev_done"]
             ELSE r1

PollRows(ts) ==
    {t \in TaskIds : /\ ts[t].openclaw_job_id # NULL
                     /\ ts[t].status \in {"active", "running"}}

PollTickRows(unreachable) ==
    /\ PollRows(tasks) # {}
    /\ unreachable \subseteq PollRows(tasks)
    /\ tasks' = [t \in TaskIds |->
                   IF t \in PollRows(tasks)
                   THEN PollRow(tasks[t], t \notin unreachable, gw[t])
                   ELSE tasks[t]]
    /\ gw' = GwSync(tasks, tasks')
    /\ Fault(unreachable # {})
    /\ UNCHANGED <<decisions, threads, sched>>

PollTick(unreachable) ==
    /\ PollTickRows(unreachable)
    /\ Quiet

\* the gateway works on a job: queued -> running -> completed | failed
JobProgress(t, end) ==
    /\ gw[t] \in {"queued", "running"}
    /\ gw' = [gw EXCEPT ![t] = IF gw[t] = "queued" THEN "running" ELSE end]
    /\ gw[t] = "queued" => end = "completed"
    /\ Fault(gw'[t] = "failed")
    /\ Quiet
    /\ UNCHANGED <<tasks, decisions, threads, sched>>

(***************************************************************************)
(* ResumeTick: app/main.py, _tick_resume_paused                            *)
(***************************************************************************)
\* A fault of the resume gate: paused tasks are resumed whatever the state.
ResumeGateOpen(state) == TRUE

\* if state != claude_health.HEALTHY: return
ResumeGate(state) == state = HEALTHY

\* SELECT id FROM tasks WHERE status IN ('paused_limit', 'queued_for_claude')
PausedRows(ts) == {t \in TaskIds : ts[t].status \in PausedStatuses}

ResumeTick ==
    LET r == GetStateResult(health, now)
        spawn == IF ResumeGate(r.ret) THEN PausedRows(tasks) ELSE {}
    IN  /\ \A t \in spawn : threads[t] < MaxInFlight
        /\ health' = r.row
        /\ threads' = [t \in TaskIds |-> IF t \in spawn THEN threads[t] + 1
                                         ELSE threads[t]]
        /\ UNCHANGED <<now, tasks, decisions, gw, sched, tobs, xvars>>

\* the observer of the health monitor after a ResumeTick
ResumeSeen ==
    hobs' = [hobs EXCEPT !.op = "resume", !.arg = "none", !.pre = health.state,
                         !.ret = GetStateResult(health, now).ret, !.reads = 0]
\* the observer of the health monitor after an operation that does not call it
Unseen ==
    hobs' = [hobs EXCEPT !.op = "none", !.arg = "none", !.pre = "none",
                         !.ret = "none", !.reads = 0]

(***************************************************************************)
(* The pipeline executor (run_pipeline, resume_pipeline) and the approval  *)
(* tokens (create_decision, verify_decision_token, apply_decision) are     *)
(* imported by app/main.py from modules that are not in the source tree;   *)
(* the next four actions follow the specification's sections 4.1 and 4.5.  *)
(***************************************************************************)
RunnerOutcomes == {"done", "blocked", "paused_limit", "queued_for_claude"}

\* the place of the escalate block in DEFAULT_PIPELINE_BLOCKS, counted from 0
ESCALATE_BLOCK_INDEX == 5
\* the id of the default pipeline, the first row of the pipelines table
DEFAULT_PIPELINE_ID == 1

\* the row a pipeline run leaves: suspension persists the resume pointers
RunnerRow(r, outcome) ==
    IF r.status \in {"done", "rejected"} THEN r
    ELSE IF outcome \in PausedStatuses
         THEN Touch([r EXCEPT !.status = outcome, !.resume_block_index = ESCALATE_BLOCK_INDEX,
                              !.resume_pipeline_id = DEFAULT_PIPELINE_ID])
         ELSE Touch([r EXCEPT !.status = outcome])

RunnerFinish(t, outcome) ==
    /\ threads[t] > 0
    /\ threads' = [threads EXCEPT ![t] = threads[t] - 1]
    /\ tasks' = [tasks EXCEPT ![t] = RunnerRow(tasks[t], outcome)]
    /\ Fault(outcome = "blocked")
    /\ Quiet
    /\ UNCHANGED <<decisions, gw, sched>>

\* _request_approval_for_task with an approver configured: a pending
\* start_task decision for a pending task (an older pending one is superseded)
RequestApproval(t) ==
    /\ tasks[t].status = "pending"
    /\ decisions[t] # "pending"
    /\ decisions' = [decisions EXCEPT ![t] = "pending"]
    /\ tobs' = tobs
    /\ Quiet
    /\ UNCHANGED <<tasks, threads, gw, sched>>

\* GET /approve and GET /reject with the token of the pending decision
ApplyDecision(t, approve) ==
    /\ decisions[t] = "pending"
    /\ decisions' = [decisions EXCEPT ![t] = IF approve THEN "approved" ELSE "rejected"]
    /\ tasks' = [tasks EXCEPT
                   ![t] = IF tasks[t].status = "pending"
                          THEN Touch([tasks[t] EXCEPT
                                      !.status = IF approve THEN "approved"
                                                 ELSE "rejected"])
                          ELSE tasks[t]]
    /\ tobs' = [tobs EXCEPT
                  !.decided = IF approve THEN tobs.decided \cup {t} ELSE tobs.decided]
    /\ Quiet
    /\ UNCHANGED <<threads, gw, sched>>

(***************************************************************************)
(* Task endpoints: app/main.py                                             *)
(***************************************************************************)
\* POST /tasks/new
CreateTask(t, critical, aid) ==
    /\ tasks[t].status = "absent"
    /\ \A u \in TaskIds : u < t => tasks[u].status # "absent"
    /\ Cardinality(Present(tasks)) < MaxTasks
    /\ tasks' = [tasks EXCEPT ![t] = NewTask(critical, aid)]
    /\ tobs' = [tobs EXCEPT
                  !.declassified = IF critical = 0 THEN tobs.declassified \cup {t}
                                   ELSE tobs.declassified]
    /\ Quiet
    /\ UNCHANGED <<decisions, threads, gw, sched>>

\* task_update answers 403 for these
UpdateRefused(r, status) ==
    /\ r.requires_approval = 1
    /\ status \in {"approved", "rejected"}
    /\ r.status \notin {"approved", "rejected"}

\* POST /tasks/{task_id}/update
TaskUpdate(t, status, aid, critical) ==
    /\ tasks[t].status # "absent"
    /\ tobs.edits < MaxEdits
    /\ tasks' = [tasks EXCEPT
                   ![t] = IF UpdateRefused(tasks[t], status) THEN tasks[t]
                          ELSE Touch([tasks[t] EXCEPT !.status = status,
                                                      !.assigned_agent_id = aid,
                                                      !.is_critical = critical])]
    /\ tobs' = [tobs EXCEPT
                  !.edits = tobs.edits + 1,
                  !.declassified = IF critical = 0 /\ ~UpdateRefused(tasks[t], status)
                                   THEN tobs.declassified \cup {t}
                                   ELSE tobs.declassified]
    /\ Quiet
    /\ UNCHANGED <<decisions, threads, gw, sched>>

\* _env_bool('DASHBOARD_APPROVALS_ENABLED', False)
DASHBOARD_APPROVALS_ENABLED == FALSE

\* api_tasks_move answers 403 for these
MoveRefused(r, new_status) ==
    \/ r.requires_approval = 1 /\ r.status = "pending" /\ new_status = "active"
    \/ /\ new_status \in {"approved", "rejected"}
       /\ r.requires_approval = 1
       /\ ~DASHBOARD_APPROVALS_ENABLED

\* POST /api/tasks/move
MoveRows(t, new_status) ==
    /\ tasks[t].status # "absent"
    /\ tobs.edits < MaxEdits
    /\ tasks' = [tasks EXCEPT
                   ![t] = IF MoveRefused(tasks[t], new_status) THEN tasks[t]
                          ELSE Touch([tasks[t] EXCEPT !.status = new_status])]
    /\ tobs' = [tobs EXCEPT !.edits = tobs.edits + 1]
    /\ UNCHANGED <<decisions, threads, gw, sched>>

Move(t, new_status) ==
    /\ MoveRows(t, new_status)
    /\ Quiet

\* no decision yet; appr.used holds the decisions a link was applied for
ApprStart ==
    [dtab |-> <<>>, inflight |-> {}, used |-> {}, op |-> "none", d |-> 0,
     resp |-> 0, token_ok |-> FALSE]

\* one UTC day in minutes
MinutesPerDay == 24 * 60
\* datetime('now', '-10 minutes')
STALE_MINUTES == 10
\* The wall clock runs from StampHorizon minutes before a UTC midnight to
\* StampHorizon minutes after it.
StampHorizon == 12

StampStart ==
    [clock |-> MinutesPerDay - StampHorizon,
     updated_at |-> [t \in TaskIds |-> MinutesPerDay - StampHorizon],
     op |-> "none"]

\* The rows of the tasks table as review_autocreate sees them: status, job
\* state, and the [review_of_task_id:N] markers in the description (source is
\* the N of the marker the description begins with, of the set of all N).
MaxReviewRows == 3
ReviewIds == 1..MaxReviewRows

NoReviewRow ==
    [status |-> "absent", openclaw_job_status |-> "NULL", source |-> NULL, of |-> {}]

\* what the last operation was when it was a poll: the row polled, the state of
\* its job, the verdict read, and the row whose review_summary it wrote
NoPoll == [t |-> NULL, state |-> "none", pass |-> FALSE, summary |-> NULL]

\* last is the highest id handed out (id INTEGER PRIMARY KEY AUTOINCREMENT)
RevStart ==
    [rows |-> [t \in ReviewIds |-> NoReviewRow], last |-> 0, op |-> "none",
     poll |-> NoPoll]

\* The minute clock of the schedule runs from 0 to PlanHorizon.
PlanHorizon == 3

\* an unscheduled task: schedule_type 'none', next_run_at NULL
Unscheduled == [schedule_type |-> "none", next_run_at |-> NULL]

\* no ScheduleTick under way: seen and cols_seen are the rows and the schedule
\* columns its SELECT returned, at its now, fired the tasks it has dispatched
PlanStart ==
    [clock |-> 0, cols |-> [t \in TaskIds |-> Unscheduled], pc |-> "idle",
     due |-> {}, seen |-> [t \in TaskIds |-> NoTask],
     cols_seen |-> [t \in TaskIds |-> Unscheduled], at |-> 0, fired |-> {},
     op |-> "none", t |-> 0]

\* the jobs _start_scheduler adds, by the tick each one wraps
Jobs == {"schedule", "poll", "routines", "resume"}

\* the kinds of routine tick_routines knows
RoutineKinds ==
    {"review_autocreate", "blocked_resolution", "planning_next_phase", "idle_autostart"}

\* at most this many routines are enabled
MaxRoutines == 2
\* the jobs fire at most this many times in all
MaxTicks == 5

\* the scheduler after _start_scheduler: alive are the jobs that still fire,
\* fired counts the ticks, erred holds the jobs whose tick has raised
RunStart ==
    [alive |-> Jobs, fired |-> 0, erred |-> {}, op |-> "none",
     raised |-> FALSE, log |-> "none", enabled |-> <<>>, bad |-> 0, ran |-> <<>>]

\* no escalate block has run
EscStart == [op |-> "none", t |-> 0, on_limit |-> "none", failure_type |-> "none"]

\* The ids of the tasks table as blocked_resolution meets them: one of one
\* digit, and those from FirstLongId to MaxBlockId, of two digits.
FirstLongId == 12
MaxBlockId == 14
BlockIds == {1} \cup FirstLongId..MaxBlockId
\* The clock of blocked_resolution runs from 1 to BlkHorizon.
BlkHorizon == 3

\* no row; helper_of is the N of a title 'Resolve: Task #N ...' (NULL for any
\* other title), last_error tells whether last_error is neither NULL nor '',
\* review_summary is "NULL" or names the text stored, last is the highest id
\* handed out, sel the row the last tick selected or polled
BlkStart ==
    [rows |-> [t \in BlockIds |->
                 [status |-> "absent", helper_of |-> NULL, last_error |-> FALSE,
                  assigned_agent_id |-> NULL, updated_at |-> 0, retry_count |-> 0,
                  review_summary |-> "NULL"]],
     last |-> FirstLongId, clock |-> 1, sel |-> NULL, op |-> "none"]

\* planning_next_phase: the tasks table as the routine reads it. A row has a
\* status ("absent": no row) and title, the prefix of its title that the
\* routine's LIKE patterns tell apart ("task": none of the three prefixes)
MaxPhaseRows == 3
PhaseIds == 1..MaxPhaseRows
PhaseStatuses == {"pending", "approved", "active", "dev_done", "done", "blocked"}
HelperTitles == {"Review:", "Resolve:", "Plan:"}
PhaseStart ==
    [rows |-> [t \in PhaseIds |-> [status |-> "absent", title |-> "task"]],
     created |-> NULL, op |-> "none"]

\* status_report_email: the rows of the tasks table by id (done or not), the
\* ids of the review tasks that are not important, the clock in minutes, the
\* two keys of routine_state (NULL: no row), and the emails sent
MaxReportTasks == 11
ReportIds == 1..MaxReportTasks
RptHorizon == 40
RptStep == 10
ReportMinDone == 10
ReportGapMinutes == 30
RptStart ==
    [done |-> {}, review |-> {}, clock |-> 0, enabled |-> FALSE, to_addr |-> FALSE,
     last_sent_at |-> NULL, last_done_id |-> 0, sent |-> 0, op |-> "none"]

\* dispatch_one_task_row: base_url and api_key tell whether OPENCLAW_BASE_URL
\* and OPENROUTER_API_KEY are set; rows are the committed columns of the tasks
\* the routine may dispatch; t and err are the row and the answer of the last
\* dispatch
DispIds == 1..2
DispErrors == {"openclaw_base_url_missing", "openrouter_api_key_missing", "dispatch_failed"}
MissingErrors == {"openclaw_base_url_missing", "openrouter_api_key_missing"}
NoDispRow == [status |-> "absent", openclaw_job_id |-> NULL, last_error |-> "NULL"]
DispStart ==
    [base_url |-> TRUE, api_key |-> TRUE, rows |-> [t \in DispIds |-> NoDispRow],
     t |-> NULL, err |-> "none", op |-> "none"]

\* The local gateway: status is the jobs row's status ("absent": no row), pc
\* the position of the thread running _run_job, call the state of the future
\* that runs run_job_langgraph, r what _run_job holds as the call's result.
MaxJobs == 2
JobIds == 1..MaxJobs
NoJob == [status |-> "absent", pc |-> "none", call |-> "none", r |-> "none"]
JobStart == [j \in JobIds |-> NoJob]

\* The runner threads that record outcomes of the premium CLI. pc tells
\* whether a runner is between the _get_row and the _update of its record
\* call, kind which call it is, seen the row it read; failures counts the
\* record_failure calls completed since the last record_success or reset,
\* invocations the record calls completed since the row was seeded.
MaxRunners == 2
RecRunners == 1..MaxRunners
RecStart ==
    [pc |-> [r \in RecRunners |-> "idle"], kind |-> [r \in RecRunners |-> "none"],
     seen |-> [r \in RecRunners |-> SeedRow(StartTime)], failures |-> 0, invocations |-> 0,
     op |-> "none"]

\* A task with the columns PollTick reads to reschedule it. interval_minutes is
\* NULL or a number (create_task keeps digits only), cron_expr is NULL, an
\* expression croniter rejects ("bad") or "*/2 * * * *" (every even minute).
RecurHorizon == 3
MaxInterval == 2
CronExprs == {"bad", "*/2 * * * *"}
NoRecurRow ==
    [status |-> "absent", openclaw_job_id |-> NULL, openclaw_job_status |-> "NULL",
     schedule_type |-> "none", interval_minutes |-> NULL, cron_expr |-> "NULL",
     is_recurring |-> 0, next_run_at |-> NULL]
RecurStart == [row |-> NoRecurRow, clock |-> 0, op |-> "none"]

\* The rolling-duration history. A duration is named by its arrival number:
\* hist is _recent_durations, arrived the number of durations appended so
\* far, pc where each runner stands in execute_claude_cli.
MAX_HISTORY == 20
MaxDurations == 22
MaxDurRunners == 2
DurRunners == 1..MaxDurRunners
DurStart ==
    [hist |-> <<>>, arrived |-> 0, pc |-> [r \in DurRunners |-> "idle"], op |-> "none"]

\* the components that have a specification of their own, at rest
XInit ==
    /\ cli = CliStart
    /\ appr = ApprStart
    /\ stamp = StampStart
    /\ rev = RevStart
    /\ plan = PlanStart
    /\ run = RunStart
    /\ esc = EscStart
    /\ blk = BlkStart
    /\ phase = PhaseStart
    /\ rpt = RptStart
    /\ disp = DispStart
    /\ jobs = JobStart
    /\ rec = RecStart
    /\ recur = RecurStart
    /\ dur = DurStart

Init ==
    /\ HealthInit
    /\ tasks = [t \in TaskIds |-> NoTask]
    /\ decisions = [t \in TaskIds |-> "none"]
    /\ threads = [t \in TaskIds |-> 0]
    /\ gw = [t \in TaskIds |-> "none"]
    /\ sched = SchedIdle
    /\ tobs = NoTaskObs
    /\ XInit

\* the ticks, the runners, the gateway and the approval links: every operation
\* but the two editing endpoints
TicksNext ==
    \/ \E claim \in BOOLEAN, ok \in BOOLEAN, aged \in BOOLEAN :
          RoutinesTick(claim, ok, aged)
    \/ SchedSelect
    \/ SchedDispatch
    \/ \E unreachable \in SUBSET TaskIds : PollTick(unreachable)
    \/ \E t \in TaskIds, end \in {"completed", "failed"} : JobProgress(t, end)
    \/ (ResumeTick /\ Unseen)
    \/ \E t \in TaskIds, outcome \in RunnerOutcomes : RunnerFinish(t, outcome)
    \/ \E t \in TaskIds : RequestApproval(t)
    \/ \E t \in TaskIds, approve \in BOOLEAN : ApplyDecision(t, approve)
    \/ \E t \in TaskIds, critical \in {0, 1}, aid \in AgentIds \cup {NULL} :
          CreateTask(t, critical, aid)

SpecTicks == Init /\ [][TicksNext]_vars

Next ==
    \/ TicksNext
    \/ \E t \in TaskIds, status \in AllowedStatuses, aid \in AgentIds \cup {NULL},
          critical \in {0, 1} : TaskUpdate(t, status, aid, critical)
    \/ \E t \in TaskIds, new_status \in AllowedStatuses : Move(t, new_status)

Spec == Init /\ [][Next]_vars

\* the health API on its own: no task is present
HealthOnlyInit ==
    /\ HealthInit
    /\ tasks = [t \in TaskIds |-> NoTask]
    /\ decisions = [t \in TaskIds |-> "none"]
    /\ threads = [t \in TaskIds |-> 0]
    /\ gw = [t \in TaskIds |-> "none"]
    /\ sched = SchedIdle
    /\ tobs = NoTaskObs
    /\ XInit

HealthNext ==
    \/ (Tick /\ UNCHANGED <<tvars, xvars>>)
    \/ (GetState /\ UNCHANGED <<tvars, xvars>>)
    \/ (RecordSuccess /\ UNCHANGED <<tvars, xvars>>)
    \/ \E ft \in FailureTypes : (RecordFailure(ft) /\ UNCHANGED <<tvars, xvars>>)
    \/ (ManualReset /\ UNCHANGED <<tvars, xvars>>)

SpecHealth == HealthOnlyInit /\ [][HealthNext]_vars

(***************************************************************************)
(* The resume tick against a moving health row: the task table holds a     *)
(* suspended task and a second task that is suspended or still pending.    *)
(***************************************************************************)
\* a task a pipeline run has suspended: created, approved, dispatched by
\* ScheduleTick, suspended by its runner
SuspendedTask(status) ==
    RunnerRow([NewTask(0, 1) EXCEPT !.status = "active"], status)

ResumeInit ==
    /\ HealthInit
    /\ \E s1 \in PausedStatuses, second \in {NewTask(1, 1), SuspendedTask("paused_limit")} :
          tasks = [t \in TaskIds |-> IF t = 1 THEN SuspendedTask(s1) ELSE second]
    /\ decisions = [t \in TaskIds |-> "none"]
    /\ threads = [t \in TaskIds |-> 0]
    /\ gw = [t \in TaskIds |-> "none"]
    /\ sched = SchedIdle
    /\ tobs = [NoTaskObs EXCEPT !.declassified = {t \in TaskIds : tasks[t].is_critical = 0}]
    /\ XInit

ResumeNext ==
    \/ (Tick /\ UNCHANGED <<tvars, xvars>>)
    \/ \E ft \in FailureTypes : (RecordFailure(ft) /\ UNCHANGED <<tvars, xvars>>)
    \/ (ManualReset /\ UNCHANGED <<tvars, xvars>>)
    \/ (ResumeTick /\ ResumeSeen)

SpecResume == ResumeInit /\ [][ResumeNext]_vars

\* the premium-CLI adapter on its own
SpecCli == HealthOnlyInit /\ [][CliNext]_vars

(***************************************************************************)
(* The approval links row by row: app/main.py, approve, reject,            *)
(* _request_approval_for_task and the approval branch of api_tasks_move.   *)
(* create_decision, verify_decision_token and apply_decision are imported  *)
(* from a module that is not in the source tree and follow section 4.5 of  *)
(* the specification.  A decision is named by its row number.              *)
(***************************************************************************)
\* At most this many decisions are created in a run.
MaxDecisions == 2

DecisionActions == {"start_task", "board_approve", "board_reject"}

\* UPDATE decisions SET status='superseded' WHERE entity_id=? AND action=?
\* AND status='pending'
SupersedePending(tab, t, action) ==
    [d \in 1..Len(tab) |->
        IF tab[d].entity_id = t /\ tab[d].action = action /\ tab[d].status = "pending"
        THEN [tab[d] EXCEPT !.status = "superseded"]
        ELSE tab[d]]

\* the decisions of an (entity, action) that are pending
PendingFor(tab, t, action) ==
    {d \in 1..Len(tab) :
        tab[d].entity_id = t /\ tab[d].action = action /\ tab[d].status = "pending"}

\* A fault of create_decision: an existing pending decision is kept pending.
CreateDecisionKeep(tab, t, action) ==
    Append(tab, [entity_id |-> t, action |-> action, status |-> "pending",
                 expired |-> FALSE])

\* create_decision: any existing pending (entity, action) is superseded
CreateDecision(tab, t, action) ==
    Append(SupersedePending(tab, t, action),
           [entity_id |-> t, action |-> action, status |-> "pending",
            expired |-> FALSE])

\* A fault of verify_decision_token: the decision's status is not looked at.
VerifyAnyStatus(tab, d, token_ok) ==
    /\ d \in 1..Len(tab)
    /\ ~tab[d].expired
    /\ token_ok

\* verify_decision_token: status = pending, now < expires_at, the hash matches
VerifyDecisionToken(tab, d, token_ok) ==
    /\ d \in 1..Len(tab)
    /\ tab[d].status = "pending"
    /\ ~tab[d].expired
    /\ token_ok

\* apply_decision: the one-shot transition of the decision and of its task
AppliedTable(tab, d, approve) ==
    IF tab[d].status = "pending"
    THEN [tab EXCEPT ![d].status = IF approve THEN "approved" ELSE "rejected"]
    ELSE tab

AppliedTasks(tab, ts, d, approve) ==
    LET t == tab[d].entity_id
    IN  IF tab[d].status = "pending" /\ ts[t].status = "pending"
        THEN [ts EXCEPT ![t].status = IF approve THEN "approved" ELSE "rejected"]
        ELSE ts

\* _request_approval_for_task(task_id); approver tells whether APPROVER_EMAIL
\* is configured
RequestApprovalFor(t, approver) ==
    /\ tasks[t].status = "pending"
    /\ Len(appr.dtab) < MaxDecisions
    /\ LET superseded == SupersedePending(appr.dtab, t, "start_task")
       IN  appr' = [appr EXCEPT
                      !.dtab = IF approver
                               THEN CreateDecision(superseded, t, "start_task")
                               ELSE superseded,
                      !.op = "none", !.d = 0, !.resp = 0, !.token_ok = FALSE]
    /\ UNCHANGED <<hvars, tvars, xNotAppr>>

\* api_tasks_move to approved/rejected with DASHBOARD_APPROVALS_ENABLED set,
\* up to the await of the upstream call
BoardRequest(t, approve) ==
    /\ tasks[t].status # "absent"
    /\ tasks[t].requires_approval = 1
    /\ Len(appr.dtab) < MaxDecisions
    /\ appr' = [appr EXCEPT
                  !.dtab = CreateDecision(appr.dtab, t,
                                          IF approve THEN "board_approve"
                                          ELSE "board_reject"),
                  !.inflight = appr.inflight \cup {Len(appr.dtab) + 1},
                  !.op = "none", !.d = 0, !.resp = 0,
                  !.token_ok = FALSE]
    /\ UNCHANGED <<hvars, tvars, xNotAppr>>

\* api_tasks_move after the upstream call: apply_decision on its own decision
BoardApply(d) ==
    /\ d \in appr.inflight
    /\ LET approve == appr.dtab[d].action = "board_approve"
       IN  /\ appr' = [appr EXCEPT
                         !.dtab = AppliedTable(appr.dtab, d, approve),
                         !.inflight = appr.inflight \ {d},
                         !.op = "none", !.d = 0, !.resp = 0,
                         !.token_ok = FALSE]
           /\ tasks' = AppliedTasks(appr.dtab, tasks, d, approve)
    /\ UNCHANGED <<hvars, decisions, threads, gw, sched, tobs, xNotAppr>>

\* GET /approve and GET /reject with a decision_id and a token
Link(d, approve, token_ok) ==
    /\ d \in 1..Len(appr.dtab)
    /\ IF VerifyDecisionToken(appr.dtab, d, token_ok)
       THEN /\ appr' = [appr EXCEPT
                          !.dtab = AppliedTable(appr.dtab, d, approve),
                          !.used = appr.used \cup {d},
                          !.op = "link", !.d = d, !.resp = 200,
                          !.token_ok = token_ok]
            /\ tasks' = AppliedTasks(appr.dtab, tasks, d, approve)
       ELSE /\ appr' = [appr EXCEPT !.op = "link", !.d = d, !.resp = 403,
                                    !.token_ok = token_ok]
            /\ tasks' = tasks
    /\ UNCHANGED <<hvars, decisions, threads, gw, sched, tobs, xNotAppr>>

\* the clock passes the expires_at of a decision that is still pending
Expire(d) ==
    /\ d \in 1..Len(appr.dtab)
    /\ appr.dtab[d].status = "pending"
    /\ ~appr.dtab[d].expired
    /\ appr' = [appr EXCEPT !.dtab[d].expired = TRUE, !.op = "none", !.d = 0,
                            !.resp = 0, !.token_ok = FALSE]
    /\ UNCHANGED <<hvars, tvars, xNotAppr>>

\* one pending critical task that requires approval
ApprInit ==
    /\ HealthInit
    /\ tasks = [t \in TaskIds |-> IF t = 1 THEN NewTask(1, 1) ELSE NoTask]
    /\ decisions = [t \in TaskIds |-> "none"]
    /\ threads = [t \in TaskIds |-> 0]
    /\ gw = [t \in TaskIds |-> "none"]
    /\ sched = SchedIdle
    /\ tobs = NoTaskObs
    /\ XInit

ApprNext ==
    \/ \E t \in TaskIds, approver \in BOOLEAN : RequestApprovalFor(t, approver)
    \/ \E t \in TaskIds, approve \in BOOLEAN : BoardRequest(t, approve)
    \/ \E d \in 1..MaxDecisions : BoardApply(d)
    \/ \E d \in 1..MaxDecisions, approve \in BOOLEAN, token_ok \in BOOLEAN :
          Link(d, approve, token_ok)
    \/ \E d \in 1..MaxDecisions : Expire(d)

SpecApprovals == ApprInit /\ [][ApprNext]_vars

(***************************************************************************)
(* Step 0 of idle_autostart against the rows' updated_at: app/routines.py, *)
(* tick_routines.  updated_at holds the text of isoformat(), and Step 0     *)
(* compares it as text with the text of SQLite's datetime().               *)
(***************************************************************************)
\* datetime.now(timezone.utc).replace(microsecond=0).isoformat():
\* YYYY-MM-DD, the letter T, HH:MM:SS, +00:00
IsoFormat(t) ==
    [date |-> t \div MinutesPerDay, sep |-> "T", time |-> t % MinutesPerDay]

\* SQLite's datetime(): YYYY-MM-DD, a space, HH:MM:SS
SqlDatetime(t) ==
    [date |-> t \div MinutesPerDay, sep |-> " ", time |-> t % MinutesPerDay]

\* the comparison of two such texts, character by character; of the two
\* separators the space sorts before T
TextLess(a, b) ==
    \/ a.date < b.date
    \/ /\ a.date = b.date
       /\ \/ (a.sep = " " /\ b.sep = "T")
          \/ (a.sep = b.sep /\ a.time < b.time)

\* updated_at < datetime('now', '-10 minutes')
StaleBefore(updated_at, clock) ==
    TextLess(IsoFormat(updated_at), SqlDatetime(clock - STALE_MINUTES))

\* stamp after a handler wrote rows: every UPDATE sets updated_at to the clock
Stamped(written, op) ==
    stamp' = [stamp EXCEPT
                !.updated_at = [t \in TaskIds |->
                                  IF t \in written THEN stamp.clock
                                  ELSE stamp.updated_at[t]],
                !.op = op]

StampTick ==
    /\ stamp.clock < MinutesPerDay + StampHorizon
    /\ stamp' = [stamp EXCEPT !.clock = stamp.clock + 1, !.op = "none"]
    /\ UNCHANGED <<hvars, tvars, xNotStamp>>

\* PollTick: every polled row is written, whatever get_status answered
StalePollTick(unreachable) ==
    /\ PollTickRows(unreachable)
    /\ Stamped(PollRows(tasks), "poll")
    /\ UNCHANGED <<hvars, xNotStamp>>

\* the routines tick; the one task present decides Step 0's comparison, and
\* Step 5 takes the first row of ORDER BY updated_at ASC, id ASC, where a row
\* the earlier steps of the tick wrote carries the tick's time (every writer
\* of tasks.updated_at stores isoformat() text, which orders as the times do)
StaleRoutinesTick(claim, ok) ==
    LET aged == \E t \in Present(tasks) : StaleBefore(stamp.updated_at[t], stamp.clock)
        swept == SweepBeforeDispatch(tasks, claim, aged)
        at == [t \in TaskIds |-> IF swept[t] # tasks[t] THEN stamp.clock
                                 ELSE stamp.updated_at[t]]
    IN  /\ RoutinesTickRows(claim, ok, aged)
        /\ \A a \in AgentIds : \A t, u \in DispatchCandidates(swept, a) :
               tasks'[t] # swept[t] => (at[t] < at[u] \/ (at[t] = at[u] /\ t <= u))
        /\ Stamped({t \in TaskIds : tasks'[t] # tasks[t]}, "routines")
        /\ UNCHANGED <<hvars, xNotStamp>>

\* a dispatched task whose job the gateway reports as running
RunningTask(status) ==
    [NewTask(0, 1) EXCEPT !.status = status, !.openclaw_job_id = 1,
                          !.openclaw_job_status = "running"]

StaleInit ==
    /\ HealthInit
    /\ \E status \in {"active", "running"} :
          tasks = [t \in TaskIds |-> IF t = 1 THEN RunningTask(status) ELSE NoTask]
    /\ decisions = [t \in TaskIds |-> "none"]
    /\ threads = [t \in TaskIds |-> 0]
    /\ gw = [t \in TaskIds |-> IF t = 1 THEN "running" ELSE "none"]
    /\ sched = SchedIdle
    /\ tobs = [NoTaskObs EXCEPT !.declassified = {1}]
    /\ XInit

StaleNext ==
    \/ StampTick
    \/ \E unreachable \in SUBSET TaskIds : StalePollTick(unreachable)
    \/ \E claim \in BOOLEAN, ok \in BOOLEAN : StaleRoutinesTick(claim, ok)

SpecStale == StaleInit /\ [][StaleNext]_vars

(***************************************************************************)
(* Step 2 of idle_autostart for a task whose job fails every time: the     *)
(* routines tick, PollTick, the gateway and a move on the board.           *)
(***************************************************************************)
\* the gateway's job ends failed: queued -> running -> failed
JobFails(t) ==
    /\ gw[t] \in {"queued", "running"}
    /\ gw' = [gw EXCEPT ![t] = IF gw[t] = "queued" THEN "running" ELSE "failed"]
    /\ stamp' = [stamp EXCEPT !.op = "gateway"]
    /\ UNCHANGED <<tasks, decisions, threads, sched, tobs, hvars, xNotStamp>>

\* POST /api/tasks/move
BoardMove(t, new_status) ==
    /\ MoveRows(t, new_status)
    /\ Stamped({u \in TaskIds : tasks'[u] # tasks[u]}, "move")
    /\ UNCHANGED <<hvars, xNotStamp>>

RetryInit ==
    /\ HealthInit
    /\ tasks = [t \in TaskIds |-> IF t = 1 THEN NewTask(0, 1) ELSE NoTask]
    /\ decisions = [t \in TaskIds |-> "none"]
    /\ threads = [t \in TaskIds |-> 0]
    /\ gw = [t \in TaskIds |-> "none"]
    /\ sched = SchedIdle
    /\ tobs = [NoTaskObs EXCEPT !.declassified = {1}]
    /\ XInit

RetryNext ==
    \/ \E claim \in BOOLEAN : StaleRoutinesTick(claim, TRUE)
    \/ StalePollTick({})
    \/ \E t \in TaskIds : JobFails(t)
    \/ \E t \in TaskIds, new_status \in AllowedStatuses : BoardMove(t, new_status)

SpecRetry == RetryInit /\ [][RetryNext]_vars

(***************************************************************************)
(* Steps 3 to 5 of idle_autostart for two tasks of one agent: the routines *)
(* tick, the clock and a move on the board.                                *)
(***************************************************************************)
\* The wall clock advances at most this many minutes.
IdleHorizon == 2

IdleClockTick ==
    /\ stamp.clock < StampStart.clock + IdleHorizon
    /\ stamp' = [stamp EXCEPT !.clock = stamp.clock + 1, !.op = "none"]
    /\ UNCHANGED <<hvars, tvars, xNotStamp>>

\* two tasks, pending or approved, critical or not, with or without the agent,
\* last written one or two minutes ago
IdleInit ==
    /\ HealthInit
    /\ \E status \in [TaskIds -> {"pending", "approved"}],
          critical \in [TaskIds -> {0, 1}],
          agent \in [TaskIds -> AgentIds \cup {NULL}] :
          tasks = [t \in TaskIds |->
                     [NewTask(critical[t], agent[t]) EXCEPT !.status = status[t]]]
    /\ decisions = [t \in TaskIds |-> "none"]
    /\ threads = [t \in TaskIds |-> 0]
    /\ gw = [t \in TaskIds |-> "none"]
    /\ sched = SchedIdle
    /\ tobs = [NoTaskObs EXCEPT
                 !.declassified = {t \in TaskIds : tasks[t].is_critical = 0}]
    /\ cli = CliStart
    /\ appr = ApprStart
    /\ \E written \in [TaskIds -> {StampStart.clock - 2, StampStart.clock - 1}] :
          stamp = [StampStart EXCEPT !.updated_at = written]
    /\ rev = RevStart
    /\ plan = PlanStart
    /\ run = RunStart
    /\ esc = EscStart
    /\ blk = BlkStart
    /\ phase = PhaseStart
    /\ rpt = RptStart
    /\ disp = DispStart
    /\ jobs = JobStart
    /\ rec = RecStart
    /\ recur = RecurStart
    /\ dur = DurStart

IdleNext ==
    \/ IdleClockTick
    \/ \E claim \in BOOLEAN, ok \in BOOLEAN : StaleRoutinesTick(claim, ok)
    \/ \E t \in TaskIds, new_status \in {"pending", "done"} : BoardMove(t, new_status)

SpecIdle == IdleInit /\ [][IdleNext]_vars

(***************************************************************************)
(* review_autocreate: app/routines.py, _ensure_review_task_for and the     *)
(* branch (A) of tick_routines, with the operations that bring a task to   *)
(* dev_done or review.                                                     *)
(***************************************************************************)
\* the greatest element of a non-empty set of ids
MaxId(S) == CHOOSE t \in S : \A u \in S : u <= t

\* '[review_of_task_id:' in description
IsReviewTask(r) == r.of # {}

\* _ensure_review_task_for: tab is [rows, last]; the marker looked for in the
\* source's description carries the source's own id
EnsureReviewTaskFor(tab, src) ==
    LET rows == tab.rows
        existing == {u \in ReviewIds : rows[u].status # "absent" /\ src \in rows[u].of}
    IN  IF src \in rows[src].of THEN tab
        ELSE IF /\ existing # {}
                /\ ~(/\ rows[MaxId(existing)].status = "done"
                     /\ rows[MaxId(existing)].openclaw_job_status = "failed")
        THEN tab
        ELSE IF tab.last >= MaxReviewRows THEN tab
        ELSE [tab EXCEPT
                !.rows = [rows EXCEPT
                            ![tab.last + 1] =
                                [status |-> "approved", openclaw_job_status |-> "NULL",
                                 source |-> src, of |-> {src} \cup rows[src].of]],
                !.last = tab.last + 1]

\* for src in review_rows: _ensure_review_task_for(...)
RECURSIVE EnsureAll(_, _)
EnsureAll(tab, order) ==
    IF order = <<>> THEN tab
    ELSE EnsureAll(EnsureReviewTaskFor(tab, Head(order)), Tail(order))

\* SELECT * FROM tasks WHERE status IN ('dev_done','review')
ReviewRows(rows) == {t \in ReviewIds : rows[t].status \in {"dev_done", "review"}}

\* the orders ORDER BY updated_at ASC, id ASC can give
Orders(S) ==
    {o \in [1..Cardinality(S) -> S] : \A i, j \in 1..Cardinality(S) : o[i] = o[j] => i = j}

\* the table is full when a tick may need more ids than the model has
ReviewTick(order) ==
    /\ order \in Orders(ReviewRows(rev.rows))
    /\ rev.last + Cardinality(ReviewRows(rev.rows)) <= MaxReviewRows
    /\ LET tab == EnsureAll([rows |-> rev.rows, last |-> rev.last], order)
       IN  rev' = [rows |-> tab.rows, last |-> tab.last, op |-> "review_autocreate",
                   poll |-> NoPoll]
    /\ UNCHANGED <<hvars, tvars, xNotRev>>

\* POST /api/tasks for a task nobody reviews yet
ReviewCreateTask ==
    /\ rev.last < MaxReviewRows
    /\ rev' = [rev EXCEPT
                 !.rows[rev.last + 1] = [NoReviewRow EXCEPT !.status = "pending"],
                 !.last = rev.last + 1,
                 !.op = "create",
                 !.poll = NoPoll]
    /\ UNCHANGED <<hvars, tvars, xNotRev>>

\* POST /api/tasks/move of a task that needs no approval
ReviewMove(t, new_status) ==
    /\ rev.rows[t].status # "absent"
    /\ rev' = [rev EXCEPT !.rows[t].status = new_status, !.op = "move",
                          !.poll = NoPoll]
    /\ UNCHANGED <<hvars, tvars, xNotRev>>

\* dispatch_one_task_row
ReviewDispatch(t) ==
    /\ rev.rows[t].status = "approved"
    /\ rev' = [rev EXCEPT !.rows[t].status = "active",
                          !.rows[t].openclaw_job_status = "queued",
                          !.op = "dispatch",
                          !.poll = NoPoll]
    /\ UNCHANGED <<hvars, tvars, xNotRev>>

\* a mutation of ReviewPollRows: a completed review promotes its source to done
\* whatever the verdict
ReviewPollRowsAlwaysPass(rows, t, state, pass) ==
    LET r == rows[t]
        src == r.source
        attached == src # NULL /\ rows[src].status # "absent"
        judged == attached /\ rows[src].status \in {"dev_done", "review"}
    IN  IF ~IsReviewTask(r)
        THEN [rows EXCEPT ![t].openclaw_job_status = state,
                          ![t].status = IF state = "failed" THEN "blocked" ELSE "dev_done"]
        ELSE IF state = "failed"
        THEN [rows EXCEPT ![t].openclaw_job_status = state, ![t].status = "approved"]
        ELSE [u \in ReviewIds |->
                IF u = t
                THEN [r EXCEPT !.openclaw_job_status = state, !.status = "done"]
                ELSE IF u = src /\ judged
                THEN [rows[u] EXCEPT !.status = "done"]
                ELSE rows[u]]

\* _poll_openclaw_jobs for a job that ended: state is the job's state, pass the
\* verdict read from a review's output
ReviewPollRows(rows, t, state, pass) ==
    LET r == rows[t]
        src == r.source
        attached == src # NULL /\ rows[src].status # "absent"
        judged == attached /\ rows[src].status \in {"dev_done", "review"}
    IN  IF ~IsReviewTask(r)
        THEN [rows EXCEPT ![t].openclaw_job_status = state,
                          ![t].status = IF state = "failed" THEN "blocked" ELSE "dev_done"]
        ELSE IF state = "failed"
        THEN [rows EXCEPT ![t].openclaw_job_status = state, ![t].status = "approved"]
        ELSE [u \in ReviewIds |->
                IF u = t
                THEN IF pass /\ attached THEN NoReviewRow
                     ELSE [r EXCEPT !.openclaw_job_status = state, !.status = "done"]
                ELSE IF u = src /\ judged
                THEN IF pass THEN [rows[u] EXCEPT !.status = "done"]
                     ELSE [rows[u] EXCEPT !.status = "approved",
                                          !.openclaw_job_status = "NULL"]
                ELSE rows[u]]

\* the row whose review_summary the poll of a review task writes: the source
\* named by the first marker, when it has a row; for a failed job only when
\* the job left an output
ReviewSummaryOf(rows, t, state, output) ==
    LET src == rows[t].source
    IN  IF /\ IsReviewTask(rows[t])
           /\ src # NULL
           /\ rows[src].status # "absent"
           /\ state = "failed" => output
        THEN src
        ELSE NULL

\* output tells whether the job left an output; an empty output reads as PASS
ReviewPoll(t, state, pass, output) ==
    /\ rev.rows[t].status = "active"
    /\ rev.rows[t].openclaw_job_status = "queued"
    /\ ~output => pass
    /\ rev' = [rev EXCEPT !.rows = ReviewPollRows(rev.rows, t, state, pass),
                          !.op = "poll",
                          !.poll = [t |-> t, state |-> state, pass |-> pass,
                                    summary |-> ReviewSummaryOf(rev.rows, t, state,
                                                                output)]]
    /\ UNCHANGED <<hvars, tvars, xNotRev>>

ReviewNext ==
    \/ \E order \in Orders(ReviewRows(rev.rows)) : ReviewTick(order)
    \/ ReviewCreateTask
    \/ \E t \in ReviewIds, new_status \in {"approved", "dev_done", "review", "done"} :
          ReviewMove(t, new_status)
    \/ \E t \in ReviewIds : ReviewDispatch(t)
    \/ \E t \in ReviewIds, state \in {"completed", "failed"}, pass \in BOOLEAN,
          output \in BOOLEAN :
          ReviewPoll(t, state, pass, output)

SpecReview == HealthOnlyInit /\ [][ReviewNext]_vars

(***************************************************************************)
(* ScheduleTick with scheduled tasks: app/main.py, _tick_scheduled_tasks,  *)
(* step 2.  The loop works on the rows as selected and on the now of the   *)
(* tick's first statement.                                                 *)
(***************************************************************************)
\* a mutation of Skipped: a scheduled row is never skipped
SkippedNever(c, at) == FALSE

\* the loop's three continue statements for a scheduled row
Skipped(c, at) ==
    /\ c.schedule_type # "none"
    /\ \/ c.next_run_at = NULL
       \/ c.next_run_at > at

\* create_task's next_run_at: now + interval_minutes, or NULL when the schedule
\* has no usable interval or cron expression
ScheduleColumns ==
    {Unscheduled}
      \cup {[schedule_type |-> "interval", next_run_at |-> n] :
               n \in {NULL} \cup 1..(PlanHorizon - 1)}

PlanClockTick ==
    /\ plan.clock < PlanHorizon
    /\ plan' = [plan EXCEPT !.clock = plan.clock + 1, !.op = "clock"]
    /\ UNCHANGED <<hvars, tvars, xNotPlan>>

\* SELECT * FROM tasks WHERE status='approved' AND no job handle
PlanSelect ==
    /\ plan.pc = "idle"
    /\ DueRows(tasks) # {}
    /\ plan' = [plan EXCEPT !.pc = "loop", !.due = DueRows(tasks), !.seen = tasks,
                            !.cols_seen = plan.cols, !.at = plan.clock,
                            !.fired = {}, !.op = "select"]
    /\ UNCHANGED <<hvars, tvars, xNotPlan>>

\* one turn of: for t in due, up to thread.start(); the UPDATE that marks the
\* task active follows as a statement of its own
PlanTurn ==
    /\ plan.pc = "loop"
    /\ LET t == MinId(plan.due)
           rest == plan.due \ {t}
           row == plan.seen[t]
           skip == Skipped(plan.cols_seen[t], plan.at)
           start == ~skip /\ row.assigned_agent_id # NULL
       IN  /\ start => threads[t] < MaxInFlight
           /\ tasks' = IF skip \/ start THEN tasks
                       ELSE [tasks EXCEPT
                               ![t] = Touch([tasks[t] EXCEPT
                                               !.last_error = "no_assigned_agent"])]
           /\ threads' = IF start THEN [threads EXCEPT ![t] = threads[t] + 1]
                         ELSE threads
           /\ plan' = [plan EXCEPT
                         !.pc = IF start THEN "mark"
                                ELSE IF rest = {} THEN "idle" ELSE "loop",
                         !.due = rest,
                         !.op = "turn", !.t = t]
    /\ UNCHANGED <<decisions, gw, sched, tobs, hvars, xNotPlan>>

\* UPDATE tasks SET status='active' for the task whose runner was just started
PlanMark ==
    /\ plan.pc = "mark"
    /\ tasks' = [tasks EXCEPT ![plan.t] = Touch([tasks[plan.t] EXCEPT !.status = "active"])]
    /\ plan' = [plan EXCEPT !.pc = IF plan.due = {} THEN "idle" ELSE "loop",
                            !.fired = plan.fired \cup {plan.t},
                            !.op = "mark"]
    /\ UNCHANGED <<decisions, threads, gw, sched, tobs, hvars, xNotPlan>>

\* POST /api/tasks/move while the tick is under way or between ticks
PlanMove(t, new_status) ==
    /\ MoveRows(t, new_status)
    /\ plan' = [plan EXCEPT !.op = "move"]
    /\ UNCHANGED <<hvars, xNotPlan>>

\* two approved tasks, with or without an agent and a schedule
PlanInit ==
    /\ HealthInit
    /\ \E agent \in [TaskIds -> AgentIds \cup {NULL}] :
          tasks = [t \in TaskIds |-> [NewTask(0, agent[t]) EXCEPT !.status = "approved"]]
    /\ decisions = [t \in TaskIds |-> "none"]
    /\ threads = [t \in TaskIds |-> 0]
    /\ gw = [t \in TaskIds |-> "none"]
    /\ sched = SchedIdle
    /\ tobs = [NoTaskObs EXCEPT !.declassified = TaskIds]
    /\ cli = CliStart
    /\ appr = ApprStart
    /\ stamp = StampStart
    /\ rev = RevStart
    /\ run = RunStart
    /\ esc = EscStart
    /\ blk = BlkStart
    /\ phase = PhaseStart
    /\ rpt = RptStart
    /\ disp = DispStart
    /\ jobs = JobStart
    /\ rec = RecStart
    /\ recur = RecurStart
    /\ dur = DurStart
    /\ \E cols \in [TaskIds -> ScheduleColumns] : plan = [PlanStart EXCEPT !.cols = cols]

PlanNext ==
    \/ PlanClockTick
    \/ PlanSelect
    \/ PlanTurn
    \/ PlanMark
    \/ \E t \in TaskIds, new_status \in {"pending", "done"} : PlanMove(t, new_status)

SpecSchedule == PlanInit /\ [][PlanNext]_vars

\* the same with the runners the ticks started: a runner ends at any time after
\* thread.start()
RaceNext ==
    \/ PlanNext
    \/ \E t \in TaskIds, outcome \in RunnerOutcomes : RunnerFinish(t, outcome)

SpecRace == PlanInit /\ [][RaceNext]_vars

(***************************************************************************)
(* Step 1 of ScheduleTick, the approval requests for scheduled tasks:      *)
(* app/main.py, _tick_scheduled_tasks and _request_approval_for_task.      *)
(***************************************************************************)
\* SCHEDULE_APPROVAL_LEAD_SECONDS, default 300, in minutes
LeadMinutes == 5

\* step 1 as a whole: every row selected whose next_run_at is at most the lead
\* ahead and that has no pending start_task decision is handed to
\* _request_approval_for_task; approver tells whether APPROVER_EMAIL is set
LeadTick(approver) ==
    LET rows == {t \in TaskIds :
                    /\ plan.cols[t].schedule_type # "none"
                    /\ tasks[t].status = "pending"
                    /\ tasks[t].requires_approval = 1
                    /\ plan.cols[t].next_run_at # NULL
                    /\ plan.cols[t].next_run_at - plan.clock <= LeadMinutes}
        RECURSIVE Requested(_, _)
        Requested(tab, todo) ==
            IF todo = {} THEN tab
            ELSE LET t == MinId(todo)
                     superseded == SupersedePending(tab, t, "start_task")
                 IN  Requested(IF PendingFor(tab, t, "start_task") # {} THEN tab
                               ELSE IF approver
                                    THEN CreateDecision(superseded, t, "start_task")
                                    ELSE superseded,
                               todo \ {t})
        dtab == Requested(appr.dtab, rows)
    IN  /\ plan.pc = "idle"
        /\ Len(dtab) <= MaxDecisions
        /\ appr' = [appr EXCEPT !.dtab = dtab, !.op = "lead", !.d = 0, !.resp = 0,
                                !.token_ok = FALSE]
        /\ plan' = [plan EXCEPT !.at = plan.clock, !.op = "lead"]
        /\ UNCHANGED <<hvars, tvars, cli, stamp, rev, run, esc, blk, phase, rpt, disp, jobs, rec, recur, dur>>

\* pending tasks that require approval, scheduled or not, with a next_run_at
\* inside or outside the lead window
LeadInit ==
    /\ HealthInit
    /\ tasks = [t \in TaskIds |-> NewTask(0, 1)]
    /\ decisions = [t \in TaskIds |-> "none"]
    /\ threads = [t \in TaskIds |-> 0]
    /\ gw = [t \in TaskIds |-> "none"]
    /\ sched = SchedIdle
    /\ tobs = [NoTaskObs EXCEPT !.declassified = TaskIds]
    /\ cli = CliStart
    /\ appr = ApprStart
    /\ stamp = StampStart
    /\ rev = RevStart
    /\ run = RunStart
    /\ esc = EscStart
    /\ blk = BlkStart
    /\ phase = PhaseStart
    /\ rpt = RptStart
    /\ disp = DispStart
    /\ jobs = JobStart
    /\ rec = RecStart
    /\ recur = RecurStart
    /\ dur = DurStart
    /\ \E cols \in [TaskIds ->
                      {Unscheduled}
                        \cup {[schedule_type |-> "interval", next_run_at |-> n] :
                                 n \in {NULL, LeadMinutes - 1, LeadMinutes + 2,
                                        LeadMinutes + PlanHorizon + 1}}] :
          plan = [PlanStart EXCEPT !.cols = cols]

LeadNext ==
    \/ PlanClockTick
    \/ \E approver \in BOOLEAN : LeadTick(approver)
    \/ \E t \in TaskIds, approver \in BOOLEAN : RequestApprovalFor(t, approver)
    \/ \E t \in TaskIds, new_status \in {"pending", "done"} : PlanMove(t, new_status)

SpecLead == LeadInit /\ [][LeadNext]_vars

(***************************************************************************)
(* The scheduler's jobs and their wrappers: app/main.py, _start_scheduler  *)
(* and the four _safe functions; the loop over the enabled routines:       *)
(* app/routines.py, tick_routines.                                         *)
(***************************************************************************)
\* the action each wrapper logs
ErrorAction(job) ==
    CASE job = "schedule" -> "scheduler_tick_error"
      [] job = "poll" -> "openclaw_poll_error"
      [] job = "routines" -> "routines_tick_error"
      [] job = "resume" -> "resume_paused_error"

\* a mutation of Wrapped: the tick is called without try/except, the exception
\* ends the job
WrappedBare(r, job, raised) ==
    [r EXCEPT !.alive = IF raised THEN r.alive \ {job} ELSE r.alive,
              !.erred = IF raised THEN r.erred \cup {job} ELSE r.erred,
              !.fired = r.fired + 1,
              !.op = job, !.raised = raised, !.log = "none"]

\* try: tick() except Exception as e: _log(<job>_error, ...)
Wrapped(r, job, raised) ==
    [r EXCEPT !.erred = IF raised THEN r.erred \cup {job} ELSE r.erred,
              !.fired = r.fired + 1,
              !.op = job, !.raised = raised,
              !.log = IF raised THEN ErrorAction(job) ELSE "none"]

\* the lists SELECT * FROM routines WHERE is_enabled=1 can return
EnabledLists ==
    {o \in UNION {[1..n -> RoutineKinds] : n \in 1..MaxRoutines} :
        \A i, j \in DOMAIN o : o[i] = o[j] => i = j}

\* for r in routines: the routines run in order, nothing in the loop catches;
\* bad is the place of the routine that raises, 0 when none does
RoutinesRun(enabled, bad) ==
    IF bad = 0 THEN enabled ELSE SubSeq(enabled, 1, bad - 1)

\* _tick_scheduled_tasks_safe, _poll_openclaw_safe, _tick_resume_paused_safe
TickSafe(job, raised) ==
    /\ job \in run.alive \ {"routines"}
    /\ run.fired < MaxTicks
    /\ run' = [Wrapped(run, job, raised) EXCEPT !.enabled = <<>>, !.bad = 0,
                                                !.ran = <<>>]
    /\ UNCHANGED <<hvars, tvars, xNotRun>>

\* _tick_routines_safe
RoutinesTickSafe(enabled, bad) ==
    /\ "routines" \in run.alive
    /\ run.fired < MaxTicks
    /\ bad \in 0..Len(enabled)
    /\ run' = [Wrapped(run, "routines", bad # 0) EXCEPT
                 !.enabled = enabled, !.bad = bad,
                 !.ran = RoutinesRun(enabled, bad)]
    /\ UNCHANGED <<hvars, tvars, xNotRun>>

RunNext ==
    \/ \E job \in Jobs, raised \in BOOLEAN : TickSafe(job, raised)
    \/ \E enabled \in EnabledLists, bad \in 0..MaxRoutines : RoutinesTickSafe(enabled, bad)

SpecWrappers == HealthOnlyInit /\ [][RunNext]_vars

(***************************************************************************)
(* The escalate block of a pipeline run.  run_pipeline and resume_pipeline *)
(* are imported by app/main.py from a module that is not in the source     *)
(* tree; the block follows section 4.1 of the specification, the pipeline  *)
(* is DEFAULT_PIPELINE_BLOCKS of app/db.py.                                *)
(***************************************************************************)
\* a mutation of EscalateOutcomes: the block suspends whatever on_limit says
EscalateOutcomesQueue(failure_type, on_limit) ==
    CASE failure_type = CLAUDE_SUCCESS -> {"done"}
      [] failure_type = CLAUDE_FAIL_DAILY_LIMIT -> {"queued_for_claude"}
      [] failure_type = CLAUDE_FAIL_AUTH -> {"paused_limit"}
      [] OTHER -> {"blocked", "paused_limit"}

\* the statuses the block may leave: queued_for_claude on DAILY_LIMIT and
\* paused_limit on AUTH when on_limit is queue, blocked when it is stop; the
\* specification leaves open whether the other failures block or pause
EscalateOutcomes(failure_type, on_limit) ==
    CASE failure_type = CLAUDE_SUCCESS -> {"done"}
      [] failure_type = CLAUDE_FAIL_DAILY_LIMIT ->
            IF on_limit = "queue" THEN {"queued_for_claude"} ELSE {"blocked"}
      [] failure_type = CLAUDE_FAIL_AUTH ->
            IF on_limit = "queue" THEN {"paused_limit"} ELSE {"blocked"}
      [] OTHER -> IF on_limit = "queue" THEN {"blocked", "paused_limit"} ELSE {"blocked"}

\* the runner of task t reaches the escalate block, on a first run or resumed
\* at resume_block_index, and the CLI answers with failure_type
EscalateBlock(t, on_limit, failure_type) ==
    /\ threads[t] > 0
    /\ tasks[t].status \in {"active"} \cup PausedStatuses
    /\ \E outcome \in EscalateOutcomes(failure_type, on_limit) :
          tasks' = [tasks EXCEPT ![t] = RunnerRow(tasks[t], outcome)]
    /\ threads' = [threads EXCEPT ![t] = threads[t] - 1]
    /\ esc' = [op |-> "escalate", t |-> t, on_limit |-> on_limit,
               failure_type |-> failure_type]
    /\ UNCHANGED <<decisions, gw, sched, tobs, hvars, xNotEsc>>

\* two tasks ScheduleTick has dispatched: active, one runner each
EscInit ==
    /\ HealthInit
    /\ tasks = [t \in TaskIds |-> [NewTask(0, 1) EXCEPT !.status = "active"]]
    /\ decisions = [t \in TaskIds |-> "none"]
    /\ threads = [t \in TaskIds |-> 1]
    /\ gw = [t \in TaskIds |-> "none"]
    /\ sched = SchedIdle
    /\ tobs = [NoTaskObs EXCEPT !.declassified = TaskIds]
    /\ XInit

EscNext ==
    \/ \E t \in TaskIds, on_limit \in {"stop", "queue"},
          failure_type \in FailureTypes \cup {CLAUDE_SUCCESS} :
             EscalateBlock(t, on_limit, failure_type)
    \/ (ResumeTick /\ Unseen)

SpecEscalate == EscInit /\ [][EscNext]_vars

(***************************************************************************)
(* Properties of the task lifecycle                                        *)
(***************************************************************************)
\* the runners in flight for a task: its pipeline threads and its gateway job
Runners(t) == threads[t] + (IF gw[t] \in {"queued", "running"} THEN 1 ELSE 0)

\* C1: at any time at most one runner (pipeline thread or external job) is in
\* flight for a task, under every interleaving of ScheduleTick, ResumeTick and
\* the dispatch step of idle_autostart.
C1_AtMostOneRunner == \A t \in TaskIds : Runners(t) <= 1

TerminalStatuses == {"done", "blocked", "rejected"}

\* C2: once a task's status is done, no operation changes it to a status that
\* is not terminal.
C2_DoneStaysTerminal ==
    [][\A t \in TaskIds :
          tasks[t].status = "done" => tasks'[t].status \in TerminalStatuses]_vars

\* C3: a task created critical with requires_approval = 1, and never stored
\* with is_critical = 0, has status approved only after a decision for it was
\* applied with approve = true.
C3_ApprovedOnlyAfterDecision ==
    \A t \in TaskIds :
        (/\ tasks[t].status = "approved"
         /\ tasks[t].requires_approval = 1
         /\ t \notin tobs.declassified) => t \in tobs.decided

\* C4: in every reachable state a task in paused_limit or queued_for_claude
\* has a resume_block_index and a resume pipeline id that are not NULL.
C4_PausedHasResumePointers ==
    \A t \in TaskIds :
        tasks[t].status \in PausedStatuses =>
            (tasks[t].resume_block_index # NULL /\ tasks[t].resume_pipeline_id # NULL)

\* C5: a ResumeTick whose get_state() returns a state other than HEALTHY spawns
\* no runner and changes no task; one whose get_state() returns HEALTHY spawns
\* one runner for each task in paused_limit or queued_for_claude, none for any
\* other task, and changes no task.
C5_ResumeOnlyWhenHealthy ==
    [][hobs'.op = "resume" =>
          /\ tasks' = tasks
          /\ threads' = [t \in TaskIds |->
                           IF hobs'.ret = HEALTHY /\ tasks[t].status \in PausedStatuses
                           THEN threads[t] + 1 ELSE threads[t]]]_vars

\* a ResumeTick found the monitor recovered from UNAVAILABLE and resumed the
\* suspended task 1 and not the pending task 2
C5_Witness ==
    /\ hobs.op = "resume" /\ hobs.pre = UNAVAILABLE /\ hobs.ret = HEALTHY
    /\ tasks[1].status \in PausedStatuses /\ threads[1] = 1
    /\ tasks[2].status = "pending" /\ threads[2] = 0

(***************************************************************************)
(* Properties of the health state machine                                  *)
(***************************************************************************)
TimeoutOrError == {CLAUDE_FAIL_TIMEOUT, CLAUDE_FAIL_ERROR}
Recorded == {"record_success", "record_failure"}

\* C6: once the state is AUTH_FAILED, every recorded outcome and every
\* get_state() read leaves it AUTH_FAILED; the only step that takes it out of
\* AUTH_FAILED is manual_reset, and it leads to HEALTHY.
C6_AuthFailedOnlyManualReset ==
    [][(health.state = AUTH_FAILED /\ health'.state # AUTH_FAILED)
         => (hobs'.op = "manual_reset" /\ health'.state = HEALTHY)]_vars

\* C7: once the state is DAILY_LIMIT_HIT no recorded outcome changes it; it is
\* left only by the auto-reset of a get_state() read at or after daily_reset_at,
\* or by manual_reset.
C7_DailyLimitOnlyResets ==
    [][(health.state = DAILY_LIMIT_HIT /\ health'.state # DAILY_LIMIT_HIT)
         => \/ hobs'.op = "manual_reset"
            \/ (hobs'.op = "get_state" /\ now >= health.daily_reset_at)]_vars

\* C8: a get_state() read that finds DAILY_LIMIT_HIT at or after daily_reset_at
\* returns HEALTHY, stores HEALTHY and moves daily_reset_at to the following UTC
\* midnight, strictly later than now; before daily_reset_at it returns
\* DAILY_LIMIT_HIT and leaves the row as it was.
C8_DailyAutoReset ==
    [][(hobs'.op = "get_state" /\ health.state = DAILY_LIMIT_HIT)
         => IF now >= health.daily_reset_at
            THEN /\ hobs'.ret = HEALTHY
                 /\ health'.state = HEALTHY
                 /\ health'.daily_reset_at % DayLen = 0
                 /\ health'.daily_reset_at > now
                 /\ health'.daily_reset_at <= now + DayLen
            ELSE /\ hobs'.ret = DAILY_LIMIT_HIT
                 /\ health' = health]_vars

\* C8 witness: a get_state() read found DAILY_LIMIT_HIT and reset it.
C8_Witness ==
    /\ hobs.op = "get_state"
    /\ hobs.pre = DAILY_LIMIT_HIT
    /\ hobs.ret = HEALTHY
    /\ health.state = HEALTHY

C10_GetStateStable ==
    [][(hobs.op = "get_state" /\ hobs'.op = "get_state")
         => (hobs'.ret = hobs.ret /\ health' = health)]_vars

\* C10 witness: two reads in a row, the first of which auto-recovered the row
\* from UNAVAILABLE or DAILY_LIMIT_HIT at this very clock value.
C10_Witness ==
    /\ hobs.reads = 2
    /\ hobs.ret = HEALTHY
    /\ health.state = HEALTHY
    /\ health.updated_at = now
    /\ health.consecutive_failures = 0
    /\ health.last_failure # NULL
    /\ health.last_failure < now

(***************************************************************************)
(* Properties of the premium-CLI adapter                                   *)
(***************************************************************************)
\* the rate-limits since the last success whose timestamp lies in the window
\* of RATE_LIMIT_WINDOW_MINUTES ending at ts
InWindow(hist, ts) ==
    {i \in 1..Len(hist) : hist[i] >= ts - RATE_LIMIT_WINDOW_MINUTES /\ hist[i] <= ts}

\* C11: a rate-limit classified at ts is promoted to a daily-limit failure if
\* and only if at least CONSECUTIVE_RATE_LIMITS_FOR_DAILY rate-limit timestamps
\* since the last success, the current one included, lie in the window ending
\* at ts; a timestamp outside the window is discarded from the list.
C11_PromotionAtThreshold ==
    [][(cli'.op = "execute" /\ cli'.rate_limit)
         => /\ (cli'.failure_type = CLAUDE_FAIL_DAILY_LIMIT)
                  <=> (Cardinality(InWindow(cli'.hist, cli.clock))
                         >= CONSECUTIVE_RATE_LIMITS_FOR_DAILY)
            /\ cli'.failure_type \in {CLAUDE_FAIL_DAILY_LIMIT, CLAUDE_FAIL_RATE_LIMIT}
            /\ Len(cli'.rl) = Cardinality(InWindow(cli'.hist, cli.clock))
            /\ \A i \in 1..Len(cli'.rl) :
                  cli'.rl[i] >= cli.clock - RATE_LIMIT_WINDOW_MINUTES]_vars

\* C11 witness: a rate-limit was promoted with exactly the threshold number of
\* timestamps in the window, the oldest exactly one window old, while a fourth
\* one, one unit older, had been discarded.
C11_Witness ==
    /\ cli.op = "execute" /\ cli.rate_limit
    /\ cli.failure_type = CLAUDE_FAIL_DAILY_LIMIT
    /\ Len(cli.rl) = CONSECUTIVE_RATE_LIMITS_FOR_DAILY
    /\ cli.rl[1] = cli.clock - RATE_LIMIT_WINDOW_MINUTES
    /\ Len(cli.hist) = CONSECUTIVE_RATE_LIMITS_FOR_DAILY + 1
    /\ cli.hist[1] = cli.clock - RATE_LIMIT_WINDOW_MINUTES - 1

(***************************************************************************)
(* Properties of the approval links                                        *)
(***************************************************************************)
\* C12: once /approve or /reject has been applied for a decision with its
\* valid token, every later /approve or /reject with the same decision and
\* token answers 403 and changes neither the decisions nor the tasks.
C12_LinkSingleUse ==
    [][(appr'.op = "link" /\ appr'.d \in appr.used /\ appr'.token_ok)
         => /\ appr'.resp = 403
            /\ appr'.dtab = appr.dtab
            /\ tasks' = tasks]_vars

\* C12 witness: a link that had been applied was used again with its token
\* and refused, the decision being approved and not expired.
C12_Witness ==
    /\ appr.op = "link" /\ appr.resp = 403 /\ appr.token_ok
    /\ appr.d \in appr.used
    /\ appr.dtab[appr.d].status = "approved"
    /\ ~appr.dtab[appr.d].expired
    /\ tasks[appr.dtab[appr.d].entity_id].status = "approved"

\* C13: in every reachable state at most one decision per (entity, action) is
\* pending, and a decision that can be verified is the most recently created
\* one of its (entity, action).
C13_OnePendingPerEntityAction ==
    /\ \A t \in TaskIds, action \in DecisionActions :
          Cardinality(PendingFor(appr.dtab, t, action)) <= 1
    /\ \A d \in 1..Len(appr.dtab) :
          VerifyDecisionToken(appr.dtab, d, TRUE) =>
              \A e \in 1..Len(appr.dtab) :
                  (/\ appr.dtab[e].entity_id = appr.dtab[d].entity_id
                   /\ appr.dtab[e].action = appr.dtab[d].action) => e <= d

\* C13 witness: a second decision was created for an (entity, action) whose
\* first one was pending: the first is superseded, the second pending.
C13_Witness ==
    \E d, e \in 1..Len(appr.dtab) :
        /\ d < e
        /\ appr.dtab[d].entity_id = appr.dtab[e].entity_id
        /\ appr.dtab[d].action = appr.dtab[e].action
        /\ appr.dtab[d].status = "superseded"
        /\ appr.dtab[e].status = "pending"

(***************************************************************************)
(* Properties of the routines tick                                         *)
(***************************************************************************)
\* C14: an idle_autostart tick resets every active task with job state running
\* whose updated_at is more than 10 minutes before now to approved with
\* last_error stale_running_reset, job handle and job state cleared and
\* retry_count unchanged (the same tick may dispatch the reset row again), and
\* leaves a task updated within the last 10 minutes as it was.
C14_StaleRunningReset ==
    [][stamp'.op = "routines" =>
         \A t \in TaskIds :
            (tasks[t].status = "active" /\ tasks[t].openclaw_job_status = "running")
              => LET reset == [tasks[t] EXCEPT
                                  !.status = "approved", !.openclaw_job_id = NULL,
                                  !.openclaw_job_status = "NULL",
                                  !.last_error = "stale_running_reset"]
                 IN  IF stamp.updated_at[t] < stamp.clock - STALE_MINUTES
                     THEN tasks'[t] \in {reset, DispatchRow(reset, TRUE)}
                     ELSE tasks'[t] = tasks[t]]_vars

\* C15: an idle_autostart tick that finds a failed task (active with job state
\* failed, or blocked) with retry_count < 3 increments retry_count by exactly
\* one, clears the job handle and sets status approved (the same tick may
\* dispatch the row again); one that finds it with retry_count >= 3 leaves it
\* blocked with last_error max_retries_exceeded and the retry_count it had.
C15_RetryAtMostThree ==
    [][stamp'.op = "routines" =>
         \A t \in TaskIds :
            (\/ (tasks[t].status = "active" /\ tasks[t].openclaw_job_status = "failed")
             \/ tasks[t].status = "blocked") =>
               IF tasks[t].retry_count < MAX_RETRIES
               THEN /\ tasks'[t].retry_count = tasks[t].retry_count + 1
                    /\ \/ /\ tasks'[t].status = "approved"
                          /\ tasks'[t].openclaw_job_id = NULL
                       \/ /\ tasks'[t].status = "active"
                          /\ tasks'[t].openclaw_job_status = "queued"
               ELSE /\ tasks'[t].status = "blocked"
                    /\ tasks'[t].last_error = "max_retries_exceeded"
                    /\ tasks'[t].retry_count = tasks[t].retry_count]_vars

\* C16: a review_autocreate tick creates no review task whose source is itself
\* a review task (a task whose description carries a [review_of_task_id:N]
\* marker), whatever the status of that source.
C16_NoReviewOfReview ==
    [][rev'.op = "review_autocreate" =>
         \A n \in ReviewIds :
            (n > rev.last /\ n <= rev'.last)
               => ~IsReviewTask(rev.rows[rev'.rows[n].source])]_vars

(***************************************************************************)
(* Properties of ScheduleTick                                              *)
(***************************************************************************)
\* C17: ScheduleTick spawns a runner for and sets active exactly the tasks it
\* found approved, without a job handle, with an assigned agent, and either
\* unscheduled or scheduled with next_run_at <= now; a scheduled task whose
\* next_run_at is later than now or missing is left unchanged; a task that is
\* unscheduled or due but has no assigned agent keeps its status and gets
\* last_error = no_assigned_agent.
C17_DispatchExactlyRipe ==
    [][plan'.op \in {"turn", "mark"} =>
         LET t == plan'.t
             agent == plan.seen[t].assigned_agent_id
             Ripe ==
                {u \in TaskIds :
                    /\ plan.seen[u].status = "approved"
                    /\ plan.seen[u].openclaw_job_id = NULL
                    /\ \/ plan.cols_seen[u].schedule_type = "none"
                       \/ /\ plan.cols_seen[u].next_run_at # NULL
                          /\ plan.cols_seen[u].next_run_at <= plan.at}
             starts == t \in Ripe /\ agent # NULL
         IN  /\ \A u \in TaskIds \ {t} : tasks'[u] = tasks[u] /\ threads'[u] = threads[u]
             /\ IF plan'.op = "mark"
                THEN /\ starts
                     /\ tasks'[t] = [tasks[t] EXCEPT !.status = "active"]
                     /\ threads'[t] = threads[t]
                ELSE /\ threads'[t] = IF starts THEN threads[t] + 1 ELSE threads[t]
                     /\ plan'.pc = "mark" <=> starts
                     /\ tasks'[t] = IF t \in Ripe /\ agent = NULL
                                    THEN [tasks[t] EXCEPT !.last_error = "no_assigned_agent"]
                                    ELSE tasks[t]
             /\ plan'.pc = "idle" =>
                   plan'.fired = {u \in Ripe : plan.seen[u].assigned_agent_id # NULL}]_vars

\* a tick that found a due task with an agent and a task scheduled for later has
\* ended: the first was dispatched, the second was not
C17_Witness ==
    /\ plan.op = "turn" /\ plan.pc = "idle"
    /\ plan.t = 2
    /\ plan.fired = {1}
    /\ plan.cols_seen[1].schedule_type = "interval"
    /\ plan.cols_seen[1].next_run_at <= plan.at
    /\ tasks[1].status = "active" /\ threads[1] = 1
    /\ plan.cols_seen[2].schedule_type = "interval"
    /\ plan.cols_seen[2].next_run_at > plan.at
    /\ plan.seen[2].assigned_agent_id # NULL
    /\ tasks[2].status = "approved" /\ threads[2] = 0

(***************************************************************************)
(* Properties of the scheduler's jobs                                      *)
(***************************************************************************)
\* C18: in a routines tick every enabled routine other than one that raised an
\* error is run.
C18_RoutinesIsolated ==
    [][run'.op = "routines" =>
         \A i \in 1..Len(run'.enabled) :
            i # run'.bad => \E k \in 1..Len(run'.ran) : run'.ran[k] = run'.enabled[i]]_vars

C20_EscalateOnDailyLimit ==
    [][\A t \in TaskIds :
          (/\ threads'[t] < threads[t]
           /\ esc'.op = "escalate" /\ esc'.t = t
           /\ esc'.failure_type = CLAUDE_FAIL_DAILY_LIMIT)
            => IF esc'.on_limit = "queue"
               THEN /\ tasks'[t].status = "queued_for_claude"
                    /\ tasks'[t].resume_block_index = ESCALATE_BLOCK_INDEX
                    /\ tasks'[t].resume_pipeline_id = DEFAULT_PIPELINE_ID
               ELSE tasks'[t].status = "blocked"]_vars

\* task 1 was queued by an escalate block with on_limit queue, task 2 was
\* blocked before by one with on_limit stop
C20_Witness ==
    /\ esc.op = "escalate" /\ esc.t = 1
    /\ esc.failure_type = CLAUDE_FAIL_DAILY_LIMIT /\ esc.on_limit = "queue"
    /\ tasks[1].status = "queued_for_claude"
    /\ tasks[1].resume_block_index = ESCALATE_BLOCK_INDEX
    /\ tasks[2].status = "blocked" /\ threads[2] = 0

(***************************************************************************)
(* blocked_resolution: app/routines.py, _tick_blocked_resolution, with the *)
(* operations that block a task and that end a helper.  An active agent    *)
(* with role architect exists; its id is 2.                                *)
(***************************************************************************)
BlkClockTick ==
    /\ blk.clock < BlkHorizon
    /\ blk' = [blk EXCEPT !.clock = blk.clock + 1, !.op = "clock"]
    /\ UNCHANGED <<hvars, tvars, xNotBlk>>

\* One call of the routine.  The SELECT of the blocked tasks returns one row,
\* the first by updated_at (any of those that tie); a helper is looked for with
\* title LIKE 'Resolve: Task #<id>%' AND status NOT IN ('done'); then the first
\* done helper the second SELECT returns (any of them) unblocks its source, if
\* that is blocked, and commits; the DELETE FROM decisions WHERE task_id=? that
\* follows names a column the decisions table does not have, so the statement
\* raises and the routine ends there with the helper's row in place.
BlockedResolutionTick ==
    LET rows == blk.rows
        Digits(n) == IF n < 10 THEN <<n>> ELSE <<n \div 10, n % 10>>
        TitleLike(h, t) ==
            /\ rows[h].helper_of # NULL
            /\ Len(Digits(t)) <= Len(Digits(rows[h].helper_of))
            /\ SubSeq(Digits(rows[h].helper_of), 1, Len(Digits(t))) = Digits(t)
        blocked == {t \in BlockIds : /\ rows[t].status = "blocked"
                                     /\ rows[t].helper_of = NULL
                                     /\ rows[t].last_error}
        first == {t \in blocked :
                    \A u \in blocked : rows[t].updated_at <= rows[u].updated_at}
    IN  /\ \E sel \in (IF first = {} THEN {NULL} ELSE first) :
              LET existing == \E h \in BlockIds :
                                  /\ rows[h].status \notin {"absent", "done"}
                                  /\ TitleLike(h, sel)
                  create == sel # NULL /\ ~existing
                  id == blk.last + 1
                  created ==
                     IF create
                     THEN [rows EXCEPT
                             ![id] = [status |-> "approved", helper_of |-> sel,
                                      last_error |-> FALSE, assigned_agent_id |-> 2,
                                      updated_at |-> blk.clock, retry_count |-> 0,
                                      review_summary |-> "NULL"]]
                     ELSE rows
                  resolved == {h \in BlockIds : /\ created[h].helper_of # NULL
                                                /\ created[h].status = "done"}
              IN  /\ create => blk.last < MaxBlockId
                  /\ \E rt \in (IF resolved = {} THEN {NULL} ELSE resolved) :
                        blk' = [blk EXCEPT
                                  !.rows = [t \in BlockIds |->
                                              IF /\ rt # NULL
                                                 /\ t = created[rt].helper_of
                                                 /\ created[t].status = "blocked"
                                              THEN [created[t] EXCEPT
                                                      !.status = "approved",
                                                      !.review_summary = "last_result",
                                                      !.last_error = FALSE,
                                                      !.retry_count = 0,
                                                      !.updated_at = blk.clock]
                                              ELSE created[t]],
                                  !.last = IF create THEN id ELSE blk.last,
                                  !.sel = sel,
                                  !.op = "blocked_resolution"]
        /\ UNCHANGED <<hvars, tvars, xNotBlk>>

\* the work of a pipeline runner on a helper ends: its row goes to done, or to
\* blocked with an error
HelperEnds(h, end) ==
    /\ blk.rows[h].helper_of # NULL
    /\ blk.rows[h].status = "approved"
    /\ blk' = [blk EXCEPT !.rows[h].status = end,
                          !.rows[h].last_error = (end = "blocked"),
                          !.rows[h].updated_at = blk.clock,
                          !.op = "helper"]
    /\ UNCHANGED <<hvars, tvars, xNotBlk>>

\* idle_autostart hands the helper to the gateway: dispatch_one_task_row
HelperDispatched(h) ==
    /\ blk.rows[h].helper_of # NULL
    /\ blk.rows[h].status = "approved"
    /\ blk' = [blk EXCEPT !.rows[h].status = "active",
                          !.rows[h].updated_at = blk.clock,
                          !.op = "dispatch"]
    /\ UNCHANGED <<hvars, tvars, xNotBlk>>

\* PollTick finds the job of a helper (title 'Resolve:...', not recurring) in
\* the terminal state given: a blocked source is approved when the job
\* completed, and the helper's row is deleted either way
HelperPolled(h, state) ==
    /\ blk.rows[h].helper_of # NULL
    /\ blk.rows[h].status = "active"
    /\ blk' = [blk EXCEPT
                 !.rows = [t \in BlockIds |->
                             IF t = h THEN BlkStart.rows[t]
                             ELSE IF /\ state = "completed"
                                     /\ t = blk.rows[h].helper_of
                                     /\ blk.rows[t].status = "blocked"
                             THEN [blk.rows[t] EXCEPT !.status = "approved",
                                                      !.retry_count = 0,
                                                      !.last_error = FALSE,
                                                      !.updated_at = blk.clock]
                             ELSE blk.rows[t]],
                 !.sel = h,
                 !.op = "poll_" \o state]
    /\ UNCHANGED <<hvars, tvars, xNotBlk>>

\* POST /api/tasks/move of a task that is no helper
BlkMove(t, new_status) ==
    /\ blk.rows[t].status \notin {"absent", new_status}
    /\ blk.rows[t].helper_of = NULL
    /\ blk' = [blk EXCEPT !.rows[t].status = new_status,
                          !.rows[t].updated_at = blk.clock,
                          !.op = "move"]
    /\ UNCHANGED <<hvars, tvars, xNotBlk>>

\* two tasks, of ids 1 and FirstLongId, blocked or active, with or without a
\* last_error
BlkInit ==
    /\ HealthInit
    /\ tasks = [t \in TaskIds |-> NoTask]
    /\ decisions = [t \in TaskIds |-> "none"]
    /\ threads = [t \in TaskIds |-> 0]
    /\ gw = [t \in TaskIds |-> "none"]
    /\ sched = SchedIdle
    /\ tobs = NoTaskObs
    /\ cli = CliStart
    /\ appr = ApprStart
    /\ stamp = StampStart
    /\ rev = RevStart
    /\ plan = PlanStart
    /\ run = RunStart
    /\ esc = EscStart
    /\ phase = PhaseStart
    /\ rpt = RptStart
    /\ disp = DispStart
    /\ jobs = JobStart
    /\ rec = RecStart
    /\ recur = RecurStart
    /\ dur = DurStart
    /\ \E status \in [{1, FirstLongId} -> {"blocked", "active"}],
          err \in [{1, FirstLongId} -> BOOLEAN] :
          blk = [BlkStart EXCEPT
                   !.rows = [t \in BlockIds |->
                               IF t \in {1, FirstLongId}
                               THEN [BlkStart.rows[t] EXCEPT
                                       !.status = status[t],
                                       !.last_error = err[t],
                                       !.retry_count = IF err[t] THEN 2 ELSE 0]
                               ELSE BlkStart.rows[t]]]

BlkNext ==
    \/ BlkClockTick
    \/ BlockedResolutionTick
    \/ \E h \in BlockIds, end \in {"done", "blocked"} : HelperEnds(h, end)
    \/ \E h \in BlockIds : HelperDispatched(h)
    \/ \E h \in BlockIds, state \in {"completed", "failed"} : HelperPolled(h, state)
    \/ \E t \in BlockIds, new_status \in {"blocked", "active"} : BlkMove(t, new_status)

SpecBlocked == BlkInit /\ [][BlkNext]_vars

(***************************************************************************)
(* Further properties of the health state machine                          *)
(***************************************************************************)
\* C21: whenever the state becomes DAILY_LIMIT_HIT the stored daily_reset_at is
\* later than now, so that get_state() keeps returning DAILY_LIMIT_HIT until the
\* first UTC midnight after the failure.
C21_DailyResetInFuture ==
    [][(health.state # DAILY_LIMIT_HIT /\ health'.state = DAILY_LIMIT_HIT)
         => health'.daily_reset_at > now']_vars

\* C25: in UNAVAILABLE a get_state() read returns UNAVAILABLE and changes nothing
\* while now - last_failure is below the cooldown, and from the cooldown on returns
\* and stores HEALTHY with consecutive_failures 0; before the cooldown no recorded
\* outcome leaves UNAVAILABLE.
C25_UnavailableUntilCooldown ==
    [][health.state = UNAVAILABLE =>
         /\ hobs'.op = "get_state" =>
               IF now - health.last_failure >= CooldownUnits
               THEN /\ hobs'.ret = HEALTHY
                    /\ health'.state = HEALTHY
                    /\ health'.consecutive_failures = 0
               ELSE /\ hobs'.ret = UNAVAILABLE
                    /\ health' = health
         /\ (hobs'.op \in Recorded /\ now - health.last_failure < CooldownUnits)
               => health'.state = UNAVAILABLE]_vars

\* C26: manual_reset, from any state, stores HEALTHY and clears the counters
\* consecutive_failures and daily_invocations.
C26_ManualResetClearsCounters ==
    [][hobs'.op = "manual_reset" =>
         /\ health'.state = HEALTHY
         /\ health'.consecutive_failures = 0
         /\ health'.daily_invocations = 0]_vars

(***************************************************************************)
(* Further properties of ScheduleTick                                      *)
(***************************************************************************)
\* C27: after step 1 of a ScheduleTick every scheduled task that is pending,
\* requires approval and has its next_run_at within the lead window has exactly
\* one pending start_task decision, and a decision that was pending before the
\* tick is the one that is pending after it.
C27_LeadWindowHasOneDecision ==
    [][(plan'.op = "lead" /\ appr'.op = "lead") =>
         \A t \in TaskIds :
            (/\ plan.cols[t].schedule_type # "none"
             /\ tasks[t].status = "pending"
             /\ tasks[t].requires_approval = 1
             /\ plan.cols[t].next_run_at # NULL
             /\ plan.cols[t].next_run_at - plan'.at <= LeadMinutes)
               => /\ Cardinality(PendingFor(appr'.dtab, t, "start_task")) = 1
                  /\ PendingFor(appr.dtab, t, "start_task") # {} =>
                        PendingFor(appr'.dtab, t, "start_task")
                           = PendingFor(appr.dtab, t, "start_task")]_vars

\* C22: the status the runner of a task has written is never overwritten with
\* active by the tick that started the runner: when the tick marks the task
\* active its runner has not yet written a status.
C22_MarkBeforeRunnerWrites ==
    [][plan'.op = "mark" =>
         ~(/\ threads[plan.t] = 0
           /\ tasks[plan.t].status \in RunnerOutcomes
           /\ tasks'[plan.t].status = "active")]_vars

(***************************************************************************)
(* Further properties of execute_claude_cli                                *)
(***************************************************************************)
\* C23: an invocation that exits with 0 and a non-blank stdout is classified
\* SUCCESS with success = true and clears the list of consecutive rate-limits,
\* whatever its output holds.
C23_ExitZeroOutputIsSuccess ==
    [][\A i \in CliInputs :
          (/\ ~i.timeout /\ i.rc_zero /\ ~i.empty
           /\ ExecuteClaudeCli(i.timeout, i.rc_zero, i.empty, i.slow, i.signals))
             => /\ cli'.success
                /\ cli'.failure_type = CLAUDE_SUCCESS
                /\ cli'.rl = <<>>]_vars

\* C24: for a non-zero exit the patterns are looked at in the order AUTH, DAILY,
\* RATE-LIMIT (a rate-limit promoted to a daily limit by the consecutive count),
\* else the failure is an error; a timeout of the subprocess is FAIL_TIMEOUT; and
\* success holds exactly when the failure type is SUCCESS.
C24_NonZeroExitPrecedence ==
    \A i \in CliInputs :
       LET r == Classify(cli.rl, cli.clock, i.timeout, i.rc_zero, i.empty, i.slow,
                         i.signals)
       IN  /\ r.success <=> r.failure_type = CLAUDE_SUCCESS
           /\ i.timeout => r.failure_type = CLAUDE_FAIL_TIMEOUT
           /\ (~i.timeout /\ ~i.rc_zero) =>
                 r.failure_type =
                    IF "auth" \in i.signals THEN CLAUDE_FAIL_AUTH
                    ELSE IF "daily" \in i.signals THEN CLAUDE_FAIL_DAILY_LIMIT
                    ELSE IF "rate" \in i.signals
                         THEN IF CheckDailyFromConsecutive(cli.rl, cli.clock).promote
                              THEN CLAUDE_FAIL_DAILY_LIMIT
                              ELSE CLAUDE_FAIL_RATE_LIMIT
                    ELSE CLAUDE_FAIL_ERROR

\* an invocation with a non-zero exit was classified FAIL_AUTH after rate-limits
\* had been counted
C24_Witness ==
    /\ cli.op = "execute"
    /\ cli.failure_type = CLAUDE_FAIL_AUTH
    /\ ~cli.success
    /\ cli.rl # <<>>

(***************************************************************************)
(* Properties of Steps 3 and 5 of idle_autostart                           *)
(***************************************************************************)
\* C28: a routines tick with idle_autostart takes every pending task with
\* is_critical = 0 out of pending by way of approved (it is approved after the
\* tick, or Step 5 of the same tick has dispatched it from approved), and leaves
\* every pending task with is_critical = 1 pending.
C28_AutoApproveNonCritical ==
    [][stamp'.op = "routines" =>
         \A t \in TaskIds :
            tasks[t].status = "pending" =>
               IF tasks[t].is_critical = 0
               THEN \/ tasks'[t].status = "approved"
                    \/ /\ tasks'[t].status = "active"
                       /\ tasks'[t].openclaw_job_id # NULL
                       /\ tasks'[t].openclaw_job_status = "queued"
               ELSE /\ tasks'[t].status = "pending"
                    /\ tasks'[t].is_critical = 1]_vars

\* a tick has just approved a pending non-critical task and left a critical one
\* pending
C28_Witness ==
    /\ stamp.op = "routines"
    /\ \E t, u \in TaskIds :
          /\ tasks[t].status = "approved" /\ tasks[t].is_critical = 0
          /\ stamp.updated_at[t] = stamp.clock
          /\ tasks[u].status = "pending" /\ tasks[u].is_critical = 1

\* C29: Step 5 gives an agent a task only if the agent has no task in status
\* active or running and none whose job is queued or running; it gives each
\* agent at most one task in a tick, and that task is the first by updated_at,
\* then id, of the approved tasks assigned to the agent that have no job handle.
C29_DispatchOldestToIdle ==
    [][stamp'.op = "routines" =>
         \E claim \in BOOLEAN, aged \in BOOLEAN :
            LET swept == SweepBeforeDispatch(tasks, claim, aged)
                at == [t \in TaskIds |-> IF swept[t] # tasks[t] THEN stamp.clock
                                         ELSE stamp.updated_at[t]]
                given == {t \in TaskIds : tasks'[t] # swept[t]}
            IN  /\ \A t \in given : swept[t].assigned_agent_id \in AgentIds
                /\ \A a \in AgentIds :
                      /\ Cardinality({t \in given : swept[t].assigned_agent_id = a}) <= 1
                      /\ \A t \in given :
                            swept[t].assigned_agent_id = a =>
                               /\ tasks'[t].status = "active"
                               /\ tasks'[t].openclaw_job_id # NULL
                               /\ swept[t].status = "approved"
                               /\ swept[t].openclaw_job_id = NULL
                               /\ \A u \in TaskIds :
                                     swept[u].assigned_agent_id = a =>
                                        /\ swept[u].status \notin {"active", "running"}
                                        /\ swept[u].openclaw_job_status
                                              \notin {"queued", "running"}
                                        /\ (/\ swept[u].status = "approved"
                                            /\ swept[u].openclaw_job_id = NULL)
                                              => \/ at[t] < at[u]
                                                 \/ (at[t] = at[u] /\ t <= u)]_vars

\* a tick has given the agent the older of its two approved tasks, the one with
\* the higher id
C29_Witness ==
    /\ stamp.op = "routines"
    /\ tasks[2].status = "active" /\ tasks[2].openclaw_job_id # NULL
    /\ stamp.updated_at[2] = stamp.clock
    /\ tasks[1].status = "approved" /\ tasks[1].openclaw_job_id = NULL
    /\ tasks[1].assigned_agent_id = tasks[2].assigned_agent_id
    /\ stamp.updated_at[1] < stamp.clock

(***************************************************************************)
(* Property of blocked_resolution                                          *)
(***************************************************************************)
\* C30: when blocked_resolution takes up a blocked task that is no helper and has
\* a last_error, it creates exactly one helper for the task's id, approved and
\* assigned to the architect, if no helper that is not done exists for that very
\* id (a helper of another id does not count), and creates none if one exists.
C30_HelperForOwnIdOnly ==
    [][(blk'.op = "blocked_resolution" /\ blk'.sel # NULL) =>
         LET t == blk'.sel
             own == {h \in BlockIds : /\ blk.rows[h].status \notin {"absent", "done"}
                                      /\ blk.rows[h].helper_of = t}
             new == {h \in BlockIds : /\ blk.rows[h].status = "absent"
                                      /\ blk'.rows[h].status # "absent"}
         IN  IF own = {}
             THEN /\ Cardinality(new) = 1
                  /\ \A h \in new : /\ blk'.rows[h].helper_of = t
                                    /\ blk'.rows[h].assigned_agent_id = 2
                                    /\ blk'.rows[h].status = "approved"
             ELSE new = {}]_vars

\* C31: when a Resolve helper has completed, on the path of the routine and on
\* the path of PollTick, its source, if blocked, becomes approved with
\* retry_count 0 and the resolution output as its review_summary, a source that
\* is not blocked keeps its status, and the helper's row is deleted.
C31_HelperCompletionUnblocks ==
    [][\A h \in BlockIds :
          (/\ blk.rows[h].helper_of # NULL
           /\ \/ blk'.op = "blocked_resolution" /\ blk.rows[h].status = "done"
              \/ blk'.op = "poll_completed" /\ blk'.sel = h
                    /\ blk.rows[h].status = "active")
             => LET src == blk.rows[h].helper_of
                IN  /\ blk'.rows[h].status = "absent"
                    /\ IF blk.rows[src].status = "blocked"
                       THEN /\ blk'.rows[src].status = "approved"
                            /\ blk'.rows[src].retry_count = 0
                            /\ blk'.rows[src].review_summary # "NULL"
                       ELSE blk'.rows[src].status = blk.rows[src].status]_vars

(***************************************************************************)
(* planning_next_phase                                                     *)
(***************************************************************************)
\* the rows the first COUNT of the routine counts: status NOT IN ('done',
\* 'blocked') and a title with none of the prefixes Review:, Resolve:, Plan:
ActiveTasks(rows) ==
    {t \in PhaseIds : /\ rows[t].status \notin {"absent", "done", "blocked"}
                      /\ rows[t].title \notin HelperTitles}

\* the rows the second COUNT counts: title LIKE 'Plan:%' and status NOT IN
\* ('done', 'blocked')
ExistingPlan(rows) ==
    {t \in PhaseIds : /\ rows[t].status \notin {"absent", "done", "blocked"}
                      /\ rows[t].title = "Plan:"}

\* one run of the routine: return when either count is positive, else INSERT
\* the task 'Plan: Next Development Phase' with status pending
PlanningNextPhaseTick ==
    LET free == {t \in PhaseIds : phase.rows[t].status = "absent"}
        create == ActiveTasks(phase.rows) = {} /\ ExistingPlan(phase.rows) = {}
    IN  /\ create => free # {}
        /\ phase' = IF create
                    THEN LET id == CHOOSE t \in free : \A u \in free : t <= u
                         IN  [phase EXCEPT
                                !.rows[id] = [status |-> "pending", title |-> "Plan:"],
                                !.created = id,
                                !.op = "planning_next_phase"]
                    ELSE [phase EXCEPT !.created = NULL,
                                       !.op = "planning_next_phase"]
        /\ UNCHANGED <<hvars, tvars, xNotPhase>>

\* a task is created on the board, or a helper by review_autocreate (approved)
\* or blocked_resolution (approved)
PhaseCreate(title) ==
    LET free == {t \in PhaseIds : phase.rows[t].status = "absent"}
    IN  /\ free # {}
        /\ title \in {"task", "Review:", "Resolve:"}
        /\ LET id == CHOOSE t \in free : \A u \in free : t <= u
           IN  phase' = [phase EXCEPT
                           !.rows[id] = [status |-> IF title = "task" THEN "pending"
                                                    ELSE "approved",
                                         title |-> title],
                           !.created = NULL,
                           !.op = "create"]
        /\ UNCHANGED <<hvars, tvars, xNotPhase>>

\* a row's status is written: the board moves it, its run or its job ends, or
\* blocked_resolution sets the blocked source of a resolved helper to approved
PhaseMove(t, new_status) ==
    /\ phase.rows[t].status \notin {"absent", new_status}
    /\ phase' = [phase EXCEPT !.rows[t].status = new_status,
                              !.created = NULL,
                              !.op = "move"]
    /\ UNCHANGED <<hvars, tvars, xNotPhase>>

PhaseInit ==
    /\ HealthInit
    /\ tasks = [t \in TaskIds |-> NoTask]
    /\ decisions = [t \in TaskIds |-> "none"]
    /\ threads = [t \in TaskIds |-> 0]
    /\ gw = [t \in TaskIds |-> "none"]
    /\ sched = SchedIdle
    /\ tobs = NoTaskObs
    /\ cli = CliStart
    /\ appr = ApprStart
    /\ stamp = StampStart
    /\ rev = RevStart
    /\ plan = PlanStart
    /\ run = RunStart
    /\ esc = EscStart
    /\ blk = BlkStart
    /\ phase = PhaseStart
    /\ rpt = RptStart
    /\ disp = DispStart
    /\ jobs = JobStart
    /\ rec = RecStart
    /\ recur = RecurStart
    /\ dur = DurStart

PhaseNext ==
    \/ PlanningNextPhaseTick
    \/ \E title \in {"task", "Review:", "Resolve:"} : PhaseCreate(title)
    \/ \E t \in PhaseIds, s \in PhaseStatuses : PhaseMove(t, s)

SpecPhase == PhaseInit /\ [][PhaseNext]_vars

\* the routine inserts a Plan: task only when both of its counts are zero
PlanCreatedOnlyWhenIdle ==
    [][(phase'.op = "planning_next_phase" /\ phase'.created # NULL)
          => /\ ActiveTasks(phase.rows) = {}
             /\ ExistingPlan(phase.rows) = {}
             /\ phase'.rows[phase'.created].title = "Plan:"
             /\ phase.rows[phase'.created].status = "absent"]_vars

\* C32: the routine inserts a Plan: task only when no task other than a helper
\* is outside done and blocked and no Plan: task is outside done and blocked;
\* hence in every reachable state at most one Plan: task is outstanding (neither
\* done nor blocked).
C32_AtMostOnePlanOutstanding ==
    Cardinality(ExistingPlan(phase.rows)) <= 1

(***************************************************************************)
(* status_report_email                                                     *)
(***************************************************************************)
\* the done rows with id > last_done_id, and those of them that are not
\* unimportant review tasks
ReportRows(r) == {t \in r.done : t > r.last_done_id}
Qualifying(r) == ReportRows(r) \ r.review

\* the pure part of _tick_status_report_email: what the routine stores and
\* whether it sends, given whether send_email returns (ok)
StatusReportEmail(r, ok) ==
    LET rows == ReportRows(r)
        max_id == IF rows = {} THEN r.last_done_id
                  ELSE CHOOSE t \in rows : \A u \in rows : u <= t
    IN  IF r.last_sent_at # NULL /\ r.clock - r.last_sent_at < ReportGapMinutes
        THEN r
        ELSE IF Cardinality(Qualifying(r)) < ReportMinDone THEN r
        ELSE IF ~r.to_addr THEN r
        ELSE IF ~ok THEN r
        ELSE [r EXCEPT !.last_sent_at = r.clock, !.last_done_id = max_id,
                       !.sent = r.sent + 1]

\* tick_routines with the status_report_email routine as the only enabled row
\* besides the default one: the loop has a branch for review_autocreate,
\* blocked_resolution and planning_next_phase, and skips every other kind that
\* is not idle_autostart, so _tick_status_report_email is not called
ReportRoutinesTick ==
    /\ rpt' = [rpt EXCEPT !.op = "routines"]
    /\ UNCHANGED <<hvars, tvars, xNotRpt>>

\* a task reaches done
ReportDone(t) ==
    /\ t \notin rpt.done
    /\ rpt' = [rpt EXCEPT !.done = rpt.done \cup {t}, !.op = "done"]
    /\ UNCHANGED <<hvars, tvars, xNotRpt>>

RptClockTick ==
    /\ rpt.clock < RptHorizon
    /\ rpt' = [rpt EXCEPT !.clock = rpt.clock + RptStep, !.op = "clock"]
    /\ UNCHANGED <<hvars, tvars, xNotRpt>>

\* the routine enabled or not, a recipient configured or not, task 1 an
\* unimportant review task or not
RptInit ==
    /\ HealthInit
    /\ tasks = [t \in TaskIds |-> NoTask]
    /\ decisions = [t \in TaskIds |-> "none"]
    /\ threads = [t \in TaskIds |-> 0]
    /\ gw = [t \in TaskIds |-> "none"]
    /\ sched = SchedIdle
    /\ tobs = NoTaskObs
    /\ cli = CliStart
    /\ appr = ApprStart
    /\ stamp = StampStart
    /\ rev = RevStart
    /\ plan = PlanStart
    /\ run = RunStart
    /\ esc = EscStart
    /\ blk = BlkStart
    /\ phase = PhaseStart
    /\ disp = DispStart
    /\ jobs = JobStart
    /\ rec = RecStart
    /\ recur = RecurStart
    /\ dur = DurStart
    /\ \E enabled \in BOOLEAN, to_addr \in BOOLEAN, review \in {{}, {1}} :
          rpt = [RptStart EXCEPT !.enabled = enabled, !.to_addr = to_addr,
                                 !.review = review]

RptNext ==
    \/ ReportRoutinesTick
    \/ \E t \in ReportIds : ReportDone(t)
    \/ RptClockTick

SpecReport == RptInit /\ [][RptNext]_vars

\* C33: on every routines tick an enabled status_report_email routine runs:
\* with at least 10 qualifying tasks done since the last report and at least 30
\* minutes since the last send it sends an email and stores last_sent_at and the
\* highest done id it processed; otherwise it sends nothing and its stored
\* state stays as it was.
C33_ReportRunsOnEveryTick ==
    [][(rpt'.op = "routines" /\ rpt.enabled /\ rpt.to_addr)
          => \E ok \in BOOLEAN :
                /\ rpt'.sent = StatusReportEmail(rpt, ok).sent
                /\ rpt'.last_sent_at = StatusReportEmail(rpt, ok).last_sent_at
                /\ rpt'.last_done_id = StatusReportEmail(rpt, ok).last_done_id
                /\ (/\ Cardinality(Qualifying(rpt)) >= ReportMinDone
                    /\ \/ rpt.last_sent_at = NULL
                       \/ rpt.clock - rpt.last_sent_at >= ReportGapMinutes)
                      => rpt'.sent = rpt.sent + 1]_vars

\* C34: when a poll finds the job of a review task completed, the source, if
\* in dev_done or review, becomes done on the verdict PASS and approved on the
\* verdict FAIL, the review output is stored as the source's review_summary,
\* and a source in any other status keeps its status.
C34_ReviewVerdictMovesSource ==
    [][(/\ rev'.op = "poll"
        /\ rev'.poll.state = "completed"
        /\ IsReviewTask(rev.rows[rev'.poll.t])
        /\ rev.rows[rev'.poll.t].source # NULL
        /\ rev.rows[rev.rows[rev'.poll.t].source].status # "absent")
          => LET src == rev.rows[rev'.poll.t].source
                 old == rev.rows[src].status
                 new == rev'.rows[src].status
             IN  /\ rev'.poll.summary = src
                 /\ IF old \in {"dev_done", "review"}
                    THEN new = IF rev'.poll.pass THEN "done" ELSE "approved"
                    ELSE new = old]_vars

\* a poll has found the review of a source in dev_done completed with the
\* verdict FAIL, and the source is approved again
C34_Witness ==
    /\ rev.op = "poll"
    /\ rev.poll.state = "completed"
    /\ ~rev.poll.pass
    /\ rev.poll.summary # NULL
    /\ rev.rows[rev.poll.summary].status = "approved"
    /\ rev.rows[rev.poll.t].status = "done"

\* the routines tick, idle_autostart's dispatch and the poller run again and
\* again (scheduler jobs at fixed intervals), and a job that is dispatched
\* again and again completes at some time
ReviewFairness ==
    /\ WF_vars(\E order \in Orders(ReviewRows(rev.rows)) : ReviewTick(order))
    /\ \A t \in ReviewIds : WF_vars(ReviewDispatch(t))
    /\ \A t \in ReviewIds :
          WF_vars(\E state \in {"completed", "failed"}, pass \in BOOLEAN,
                     output \in BOOLEAN : ReviewPoll(t, state, pass, output))
    /\ \A t \in ReviewIds :
          SF_vars(\E pass \in BOOLEAN, output \in BOOLEAN :
                     ReviewPoll(t, "completed", pass, output))

\* the automation alone: the board creates tasks and approves pending ones,
\* and moves nothing else
ReviewLiveNext ==
    \/ \E order \in Orders(ReviewRows(rev.rows)) : ReviewTick(order)
    \/ ReviewCreateTask
    \/ \E t \in ReviewIds : rev.rows[t].status = "pending" /\ ReviewMove(t, "approved")
    \/ \E t \in ReviewIds : ReviewDispatch(t)
    \/ \E t \in ReviewIds, state \in {"completed", "failed"}, pass \in BOOLEAN,
          output \in BOOLEAN :
          ReviewPoll(t, state, pass, output)

SpecReviewLive == HealthOnlyInit /\ [][ReviewLiveNext]_vars /\ ReviewFairness

\* review_autocreate has an id left for every row it may have to review
ReviewTableHasRoom ==
    rev.last + Cardinality(ReviewRows(rev.rows)) <= MaxReviewRows

\* C35: with review_autocreate, idle_autostart and the poller running fairly, a
\* task that is in dev_done, also when it is there again after a FAIL review
\* and a second run, eventually leaves dev_done (its review is created and run).
C35_DevDoneIsLeft ==
    \A t \in ReviewIds :
        (/\ rev.rows[t].status = "dev_done"
         /\ ~IsReviewTask(rev.rows[t])
         /\ ReviewTableHasRoom)
            ~> (rev.rows[t].status # "dev_done" \/ ~ReviewTableHasRoom)

(***************************************************************************)
(* dispatch_job and dispatch_one_task_row                                  *)
(***************************************************************************)
\* dispatch_job: the error it returns, or "ok"; up tells whether the POST to
\* the gateway returns a job id
DispatchJob(base_url, api_key, up) ==
    IF ~base_url THEN "openclaw_base_url_missing"
    ELSE IF ~api_key THEN "openrouter_api_key_missing"
    ELSE IF ~up THEN "dispatch_failed"
    ELSE "ok"

\* Step 5 of a routines tick for the one agent, on its connection: the row t
\* is an approved row without a job handle (updated_at is not kept here, so any
\* such row may be the first). A successful dispatch is committed by the
\* tick. A failed one writes last_error inside the transaction and returns
\* False; the tick commits nothing for it and closes the connection, so the
\* write reaches the table only when a routine later in the same tick commits
\* on that connection (later_commit).
DispatchTick(t, up, later_commit) ==
    LET res == DispatchJob(disp.base_url, disp.api_key, up)
        r == disp.rows[t]
    IN  /\ r.status = "approved"
        /\ r.openclaw_job_id = NULL
        /\ disp' = [disp EXCEPT
                      !.rows[t] = IF res = "ok"
                                  THEN [status |-> "active", openclaw_job_id |-> 1,
                                        last_error |-> "NULL"]
                                  ELSE IF later_commit
                                  THEN [r EXCEPT !.last_error = res]
                                  ELSE r,
                      !.t = t,
                      !.err = res,
                      !.op = IF res = "ok" THEN "dispatched" ELSE "dispatch_error"]
        /\ UNCHANGED <<hvars, tvars, xNotDisp>>

\* the operator sets or clears the two settings and restarts the process
DispSettings(base_url, api_key) ==
    /\ <<base_url, api_key>> # <<disp.base_url, disp.api_key>>
    /\ disp' = [disp EXCEPT !.base_url = base_url, !.api_key = api_key,
                            !.t = NULL, !.err = "none", !.op = "settings"]
    /\ UNCHANGED <<hvars, tvars, xNotDisp>>

\* a task is created and approved
DispApproved(t) ==
    /\ disp.rows[t].status = "absent"
    /\ disp' = [disp EXCEPT !.rows[t].status = "approved",
                            !.t = NULL, !.err = "none", !.op = "approved"]
    /\ UNCHANGED <<hvars, tvars, xNotDisp>>

\* PollTick finds the job of an ordinary task ended
DispPolled(t, state) ==
    /\ disp.rows[t].status = "active"
    /\ disp' = [disp EXCEPT
                  !.rows[t] = IF state = "failed"
                              THEN [status |-> "blocked", openclaw_job_id |-> NULL,
                                    last_error |-> "openclaw_job_failed"]
                              ELSE [disp.rows[t] EXCEPT !.status = "dev_done",
                                                        !.openclaw_job_id = NULL],
                  !.t = NULL, !.err = "none", !.op = "poll"]
    /\ UNCHANGED <<hvars, tvars, xNotDisp>>

DispInit ==
    /\ HealthInit
    /\ tasks = [t \in TaskIds |-> NoTask]
    /\ decisions = [t \in TaskIds |-> "none"]
    /\ threads = [t \in TaskIds |-> 0]
    /\ gw = [t \in TaskIds |-> "none"]
    /\ sched = SchedIdle
    /\ tobs = NoTaskObs
    /\ XInit

DispNext ==
    \/ \E t \in DispIds, up \in BOOLEAN, later_commit \in BOOLEAN :
          DispatchTick(t, up, later_commit)
    \/ \E base_url \in BOOLEAN, api_key \in BOOLEAN : DispSettings(base_url, api_key)
    \/ \E t \in DispIds : DispApproved(t)
    \/ \E t \in DispIds, state \in {"completed", "failed"} : DispPolled(t, state)

SpecDispatch == DispInit /\ [][DispNext]_vars

\* C36: when a dispatch fails because the gateway base URL or the API key is
\* missing, the task's last_error is that error code, its status and its job
\* handle are as before (it stays approved), and the health row is as before.
C36_MissingSettingsSetLastError ==
    [][(disp'.op = "dispatch_error" /\ disp'.err \in MissingErrors)
          => /\ disp'.rows[disp'.t].last_error = disp'.err
             /\ disp'.rows[disp'.t].status = "approved"
             /\ disp'.rows[disp'.t].status = disp.rows[disp'.t].status
             /\ disp'.rows[disp'.t].openclaw_job_id = disp.rows[disp'.t].openclaw_job_id
             /\ health' = health]_vars

\* the same for the rows as the connection of the tick sees them before it is
\* closed: the frame part of the statement
DispatchErrorKeepsStatus ==
    [][(disp'.op = "dispatch_error")
          => /\ disp'.rows[disp'.t].status = disp.rows[disp'.t].status
             /\ disp'.rows[disp'.t].openclaw_job_id = disp.rows[disp'.t].openclaw_job_id
             /\ health' = health]_vars

(***************************************************************************)
(* The local gateway: app/openclaw_local.py, create_job and _run_job       *)
(***************************************************************************)
\* POST /jobs: INSERT the row as queued, commit, start the runner thread
CreateJob(j) ==
    /\ jobs[j].status = "absent"
    /\ jobs' = [jobs EXCEPT ![j] = [NoJob EXCEPT !.status = "queued", !.pc = "start"]]
    /\ UNCHANGED <<hvars, tvars, xNotJob>>

\* _run_job: UPDATE status='running', commit
JobRuns(j) ==
    /\ jobs[j].pc = "start"
    /\ jobs' = [jobs EXCEPT ![j].status = "running", ![j].pc = "submit"]
    /\ UNCHANGED <<hvars, tvars, xNotJob>>

\* ex.submit(run_job_langgraph, payload=payload) on the executor's one worker
JobSubmits(j) ==
    /\ jobs[j].pc = "submit"
    /\ jobs' = [jobs EXCEPT ![j].call = "running", ![j].pc = "wait"]
    /\ UNCHANGED <<hvars, tvars, xNotJob>>

\* run_job_langgraph returns {'ok': True, ...} or {'ok': False, ...}, or
\* raises; nothing obliges it to return
CallEnds(j, outcome) ==
    /\ jobs[j].call = "running"
    /\ outcome \in {"ok", "error", "raised"}
    /\ jobs' = [jobs EXCEPT ![j].call = outcome]
    /\ UNCHANGED <<hvars, tvars, xNotJob>>

\* fut.result(timeout=...) returns the call's result or re-raises
JobGetsResult(j) ==
    /\ jobs[j].pc = "wait"
    /\ jobs[j].call \in {"ok", "error", "raised"}
    /\ jobs' = [jobs EXCEPT ![j].r = jobs[j].call, ![j].pc = "shutdown"]
    /\ UNCHANGED <<hvars, tvars, xNotJob>>

\* fut.result raises TimeoutError after OPENCLAW_JOB_TIMEOUT_SECONDS; cancel()
\* of a future that is running does nothing; r is the timeout error
JobTimesOut(j) ==
    /\ jobs[j].pc = "wait"
    /\ jobs[j].call = "running"
    /\ jobs' = [jobs EXCEPT ![j].r = "timeout", ![j].pc = "shutdown"]
    /\ UNCHANGED <<hvars, tvars, xNotJob>>

\* leaving the with block: ThreadPoolExecutor.__exit__ is shutdown(wait=True),
\* which joins the worker, so it returns only once the call has ended; then
\* the status is written from r (an exception goes to the except clause, which
\* writes failed) and the thread ends
JobFinishes(j) ==
    /\ jobs[j].pc = "shutdown"
    /\ jobs[j].call # "running"
    /\ jobs' = [jobs EXCEPT ![j].status = IF jobs[j].r = "ok" THEN "completed"
                                        ELSE "failed",
                          ![j].pc = "end"]
    /\ UNCHANGED <<hvars, tvars, xNotJob>>

JobInit ==
    /\ HealthInit
    /\ tasks = [t \in TaskIds |-> NoTask]
    /\ decisions = [t \in TaskIds |-> "none"]
    /\ threads = [t \in TaskIds |-> 0]
    /\ gw = [t \in TaskIds |-> "none"]
    /\ sched = SchedIdle
    /\ tobs = NoTaskObs
    /\ XInit

JobNext ==
    \/ \E j \in JobIds : CreateJob(j)
    \/ \E j \in JobIds : JobRuns(j)
    \/ \E j \in JobIds : JobSubmits(j)
    \/ \E j \in JobIds, outcome \in {"ok", "error", "raised"} : CallEnds(j, outcome)
    \/ \E j \in JobIds : JobGetsResult(j)
    \/ \E j \in JobIds : JobTimesOut(j)
    \/ \E j \in JobIds : JobFinishes(j)

\* a started thread takes its steps and the timeout of fut.result expires;
\* the model call is under no obligation to return
JobFairness ==
    \A j \in JobIds :
        /\ WF_vars(JobRuns(j))
        /\ WF_vars(JobSubmits(j))
        /\ WF_vars(JobGetsResult(j))
        /\ WF_vars(JobTimesOut(j))
        /\ WF_vars(JobFinishes(j))

SpecJobs == JobInit /\ [][JobNext]_vars /\ JobFairness

\* the status moves only queued -> running -> completed or failed, and a
\* completed or failed job keeps its status
JobStatusOrder ==
    [][\A j \in JobIds :
          jobs'[j].status # jobs[j].status
             => <<jobs[j].status, jobs'[j].status>> \in
                   {<<"absent", "queued">>, <<"queued", "running">>,
                    <<"running", "completed">>, <<"running", "failed">>}]_vars

\* C37: every local job reaches a terminal state: its status moves only queued
\* -> running -> completed or failed and stays there, and a job whose model
\* call never returns is still marked failed in the end by the per-job timeout.
C37_EveryJobEnds ==
    \A j \in JobIds :
        (jobs[j].status = "queued") ~> (jobs[j].status \in {"completed", "failed"})

(***************************************************************************)
(* record_success and record_failure called from several runner threads    *)
(***************************************************************************)
\* the first statement of record_success / record_failure: row = _get_row()
RecordReads(r, kind) ==
    /\ rec.pc[r] = "idle"
    /\ rec.invocations < MaxInvocations
    /\ rec' = [rec EXCEPT !.pc[r] = "read", !.kind[r] = kind, !.seen[r] = health,
                          !.op = "read"]
    /\ UNCHANGED <<hvars, tvars, xNotRec>>

\* the last statement: _update(...) with the values computed from the row
\* that was read; the UPDATE sets those columns and leaves the rest of the
\* row as it is at that time
RecordWrites(r) ==
    /\ rec.pc[r] = "read"
    /\ LET new == IF rec.kind[r] = "success" THEN RecordSuccessRow(rec.seen[r], now)
                  ELSE RecordFailureRow(rec.seen[r], rec.kind[r], now)
       IN  health' = [health EXCEPT
                        !.state = new.state,
                        !.last_failure = IF rec.kind[r] = "success" THEN @
                                         ELSE new.last_failure,
                        !.consecutive_failures = new.consecutive_failures,
                        !.daily_invocations = new.daily_invocations,
                        !.updated_at = new.updated_at]
    /\ rec' = [rec EXCEPT !.pc[r] = "idle", !.kind[r] = "none",
                          !.seen[r] = SeedRow(StartTime),
                          !.failures = IF rec.kind[r] = "success" THEN 0
                                       ELSE rec.failures + 1,
                          !.invocations = rec.invocations + 1,
                          !.op = "write"]
    /\ UNCHANGED <<now, hobs, tvars, xNotRec>>

\* manual_reset(): one UPDATE
RecordManualReset ==
    /\ health' = ManualResetRow(health, now)
    /\ rec' = [rec EXCEPT !.failures = 0, !.op = "manual_reset"]
    /\ UNCHANGED <<now, hobs, tvars, xNotRec>>

RecInit ==
    /\ HealthInit
    /\ tasks = [t \in TaskIds |-> NoTask]
    /\ decisions = [t \in TaskIds |-> "none"]
    /\ threads = [t \in TaskIds |-> 0]
    /\ gw = [t \in TaskIds |-> "none"]
    /\ sched = SchedIdle
    /\ tobs = NoTaskObs
    /\ XInit

RecNext ==
    \/ \E r \in RecRunners, kind \in {"success", CLAUDE_FAIL_RATE_LIMIT, CLAUDE_FAIL_ERROR} :
          RecordReads(r, kind)
    \/ \E r \in RecRunners : RecordWrites(r)
    \/ RecordManualReset

SpecRecord == RecInit /\ [][RecNext]_vars

\* the same with one runner at a time: no record call begins while another is
\* between its read and its write
RecNextSerial ==
    \/ \E r \in RecRunners, kind \in {"success", CLAUDE_FAIL_RATE_LIMIT, CLAUDE_FAIL_ERROR} :
          (\A q \in RecRunners : rec.pc[q] = "idle") /\ RecordReads(r, kind)
    \/ \E r \in RecRunners : RecordWrites(r)
    \/ (\A q \in RecRunners : rec.pc[q] = "idle") /\ RecordManualReset

SpecRecordSerial == RecInit /\ [][RecNextSerial]_vars

\* C38: in every reachable state consecutive_failures is the number of
\* record_failure calls since the latest record_success or reset, and
\* daily_invocations has grown by one for every record_success and every
\* record_failure, also when two runners record outcomes concurrently.
C38_CountersCountCalls ==
    /\ health.consecutive_failures = rec.failures
    /\ health.daily_invocations = rec.invocations

(***************************************************************************)
(* PollTick for a recurring scheduled task: app/main.py, _compute_next_run *)
(* and the rescheduling branch of _poll_openclaw_jobs                      *)
(***************************************************************************)
\* _compute_next_run: base + interval_minutes for a positive interval, the
\* next time the cron expression fires after base, NULL when croniter raises
\* and for every other schedule
ComputeNextRun(schedule_type, cron_expr, interval_minutes, base) ==
    IF schedule_type = "interval" /\ interval_minutes # NULL /\ interval_minutes > 0
    THEN base + interval_minutes
    ELSE IF schedule_type = "cron" /\ cron_expr # "NULL"
    THEN IF cron_expr = "*/2 * * * *" THEN base + 2 - (base % 2) ELSE NULL
    ELSE NULL

RecurClockTick ==
    /\ recur.clock < RecurHorizon
    /\ recur' = [recur EXCEPT !.clock = recur.clock + 1, !.op = "clock"]
    /\ UNCHANGED <<hvars, tvars, xNotRecur>>

\* the board approves the task
RecurApprove ==
    /\ recur.row.status = "pending"
    /\ recur' = [recur EXCEPT !.row.status = "approved", !.op = "approve"]
    /\ UNCHANGED <<hvars, tvars, xNotRecur>>

\* idle_autostart dispatches the approved task to the gateway
RecurDispatch ==
    /\ recur.row.status = "approved"
    /\ recur.row.openclaw_job_id = NULL
    /\ recur' = [recur EXCEPT !.row.status = "active", !.row.openclaw_job_id = 1,
                              !.row.openclaw_job_status = "queued",
                              !.op = "dispatch"]
    /\ UNCHANGED <<hvars, tvars, xNotRecur>>

\* PollTick finds the job in the state given; the task is neither a review nor
\* a resolve helper
RecurPoll(state) ==
    LET r == recur.row
        new_status == CASE state = "queued" -> "active"
                         [] state = "running" -> "running"
                         [] state = "completed" -> "completed"
                         [] state = "failed" -> "blocked"
        polled == [r EXCEPT !.status = new_status, !.openclaw_job_status = state]
    IN  /\ r.openclaw_job_id # NULL
        /\ r.status \in {"active", "running"}
        /\ recur' =
             [recur EXCEPT
                !.row = IF new_status \notin {"completed", "blocked"} THEN polled
                        ELSE IF r.schedule_type # "none" /\ r.is_recurring = 1
                        THEN [polled EXCEPT
                                !.openclaw_job_id = NULL,
                                !.status = "pending",
                                !.next_run_at =
                                    ComputeNextRun(r.schedule_type, r.cron_expr,
                                                   r.interval_minutes, recur.clock),
                                !.openclaw_job_status = "NULL"]
                        ELSE [polled EXCEPT
                                !.openclaw_job_id = NULL,
                                !.status = IF state = "failed" THEN "blocked"
                                           ELSE "dev_done"],
                !.op = IF new_status \in {"completed", "blocked"} THEN "poll_terminal"
                       ELSE "poll"]
        /\ UNCHANGED <<hvars, tvars, xNotRecur>>

\* create_task has stored one pending task with the schedule the form gave
RecurInit ==
    /\ HealthInit
    /\ tasks = [t \in TaskIds |-> NoTask]
    /\ decisions = [t \in TaskIds |-> "none"]
    /\ threads = [t \in TaskIds |-> 0]
    /\ gw = [t \in TaskIds |-> "none"]
    /\ sched = SchedIdle
    /\ tobs = NoTaskObs
    /\ cli = CliStart
    /\ appr = ApprStart
    /\ stamp = StampStart
    /\ rev = RevStart
    /\ plan = PlanStart
    /\ run = RunStart
    /\ esc = EscStart
    /\ blk = BlkStart
    /\ phase = PhaseStart
    /\ rpt = RptStart
    /\ disp = DispStart
    /\ jobs = JobStart
    /\ rec = RecStart
    /\ dur = DurStart
    /\ \E schedule_type \in {"none", "interval", "cron"},
          interval_minutes \in {NULL} \cup 0..MaxInterval,
          cron_expr \in {"NULL"} \cup CronExprs,
          is_recurring \in {0, 1} :
          recur = [RecurStart EXCEPT
                     !.row = [NoRecurRow EXCEPT
                                !.status = "pending",
                                !.schedule_type = schedule_type,
                                !.interval_minutes = interval_minutes,
                                !.cron_expr = cron_expr,
                                !.is_recurring = is_recurring,
                                !.next_run_at =
                                    ComputeNextRun(schedule_type, cron_expr,
                                                   interval_minutes, 0)]]

RecurNext ==
    \/ RecurClockTick
    \/ RecurApprove
    \/ RecurDispatch
    \/ \E state \in {"queued", "running", "completed", "failed"} : RecurPoll(state)

SpecRecur == RecurInit /\ [][RecurNext]_vars

\* a recurring scheduled task whose job PollTick found ended is pending with
\* no job handle and no job state
RecurringReturnsToPending ==
    [][(/\ recur'.op = "poll_terminal"
        /\ recur.row.schedule_type # "none"
        /\ recur.row.is_recurring = 1)
          => /\ recur'.row.status = "pending"
             /\ recur'.row.openclaw_job_id = NULL
             /\ recur'.row.openclaw_job_status = "NULL"]_vars

\* C39: when PollTick finds the job of a recurring scheduled task completed or
\* failed, the task is pending again with its job handle and job state cleared
\* and its next_run_at recomputed to a time after now, so it does not rest in
\* dev_done, done or blocked.
C39_RecurringIsRescheduled ==
    [][(/\ recur'.op = "poll_terminal"
        /\ recur.row.schedule_type # "none"
        /\ recur.row.is_recurring = 1)
          => /\ recur'.row.status = "pending"
             /\ recur'.row.openclaw_job_id = NULL
             /\ recur'.row.openclaw_job_status = "NULL"
             /\ recur'.row.next_run_at # NULL
             /\ recur'.row.next_run_at > recur.clock]_vars

(***************************************************************************)
(* The rolling-duration history: app/claude_executor.py, _record_duration  *)
(* as execute_claude_cli calls it, with runners in parallel                *)
(***************************************************************************)
\* a mutation of NeedsTrim: the history is never trimmed
NeedsTrimNever(h) == FALSE

\* len(_recent_durations) > _MAX_HISTORY
NeedsTrim(h) == Len(h) > MAX_HISTORY

\* execute_claude_cli starts the subprocess
DurInvoke(r) ==
    /\ dur.pc[r] = "idle"
    /\ dur.arrived + Cardinality({q \in DurRunners : dur.pc[q] = "run"}) < MaxDurations
    /\ dur' = [dur EXCEPT !.pc[r] = "run", !.op = "invoke"]
    /\ UNCHANGED <<hvars, tvars, xNotDur>>

\* subprocess.run returned: _record_duration appends the elapsed time
DurAppend(r) ==
    /\ dur.pc[r] = "run"
    /\ dur' = [dur EXCEPT !.hist = Append(dur.hist, dur.arrived + 1),
                          !.arrived = dur.arrived + 1,
                          !.pc[r] = "check", !.op = "append"]
    /\ UNCHANGED <<hvars, tvars, xNotDur>>

\* if len(_recent_durations) > _MAX_HISTORY:
DurCheck(r) ==
    /\ dur.pc[r] = "check"
    /\ dur' = [dur EXCEPT !.pc[r] = IF NeedsTrim(dur.hist) THEN "pop" ELSE "idle",
                          !.op = "check"]
    /\ UNCHANGED <<hvars, tvars, xNotDur>>

\* _recent_durations.pop(0)
DurPop(r) ==
    /\ dur.pc[r] = "pop"
    /\ dur' = [dur EXCEPT !.hist = Tail(dur.hist), !.pc[r] = "idle", !.op = "pop"]
    /\ UNCHANGED <<hvars, tvars, xNotDur>>

\* subprocess.run raised TimeoutExpired (or the binary is missing): the except
\* clause returns without recording
DurTimeout(r) ==
    /\ dur.pc[r] = "run"
    /\ dur' = [dur EXCEPT !.pc[r] = "idle", !.op = "timeout"]
    /\ UNCHANGED <<hvars, tvars, xNotDur>>

DurInit ==
    /\ HealthInit
    /\ tasks = [t \in TaskIds |-> NoTask]
    /\ decisions = [t \in TaskIds |-> "none"]
    /\ threads = [t \in TaskIds |-> 0]
    /\ gw = [t \in TaskIds |-> "none"]
    /\ sched = SchedIdle
    /\ tobs = NoTaskObs
    /\ XInit

DurNext ==
    \/ \E r \in DurRunners : DurInvoke(r)
    \/ \E r \in DurRunners : DurAppend(r)
    \/ \E r \in DurRunners : DurCheck(r)
    \/ \E r \in DurRunners : DurPop(r)
    \/ \E r \in DurRunners : DurTimeout(r)

SpecDurations == DurInit /\ [][DurNext]_vars

\* no runner is between the append and the end of _record_duration
DurAtRest == \A r \in DurRunners : dur.pc[r] \in {"idle", "run"}

HistoryCappedAtEveryStep == Len(dur.hist) <= MAX_HISTORY

====
